---------------------------- MODULE Spec2Model ----------------------------
(***************************************************************************)
(* Model of dynast's conversion counting and SNP detection                 *)
(* (dynast/preprocessing/conversion.py, dynast/preprocessing/snp.py).      *)
(*                                                                         *)
(* Specifications:                                                         *)
(*   Spec       count_conversions: the split of the two indexes, the pool  *)
(*              of workers, the merge and the deduplication.               *)
(*   SpecPart   one count_conversions_part worker streaming one partition, *)
(*              one action per iteration of its loop.                      *)
(*   SpecDedup  deduplicate_counts applied to a counts table.              *)
(*   SpecSnp    the decision loop of detect_snps over an extracted tally.  *)
(*   SpecProgress  the workers' lock-guarded additions to the shared       *)
(*              progress counter.                                          *)
(*   SpecExtract  extract_conversions: the split, the pool of extraction   *)
(*              workers and the summation of their tallies.                *)
(*   SpecComplement  complement_counts applied to a counts table.          *)
(*   SpecSplit  estimation.pi.split_matrix applied to a count matrix.      *)
(*   SpecCount  the re-run decisions of count(), one per stage.            *)
(***************************************************************************)
EXTENDS Integers, Sequences, FiniteSets, TLC

VARIABLES
    \* ---- count_conversions_part (one worker) ----
    snps,         \* the snps argument: None or a table
    quality,      \* the quality argument (threshold)
    n_lines,      \* the n_lines argument
    update_every, \* the update_every argument
    scanned,      \* the lines f.readline() has returned so far, parsed
    i,            \* number of completed loop iterations
    read_id,      \* local read_id (None before the first record)
    counts,       \* local counts (None before the first record)
    count_base,   \* local count_base
    groups,       \* local groups
    prev_groups,  \* local prev_groups
    out,          \* rows written to the temporary counts file
    counter,      \* counter.value, the shared progress counter
    pc,           \* "loop" | "done"
    \* ---- deduplicate_counts ----
    df_counts,        \* the argument: the rows of the counts table, in order
    df_deduplicated,  \* the table returned (<<>> before the call)
    dedup_pc,         \* "read" | "returned"
    \* ---- detect_snps (after extract_conversions) ----
    convs,            \* the tally extract_conversions returned
    coverage,         \* the coverage argument
    threshold,        \* the threshold argument, a fraction <<numerator, denominator>>
    min_coverage,     \* the min_coverage argument
    todo,             \* conversions the loop over convs.items() has yet to visit
    snp_rows,         \* rows written to snps_path after the header
    snp_pc,           \* "loop" | "returned" | "raised"
    \* ---- count_conversions (coordinator and pool) ----
    idx,              \* the conversions index: (pos, n_lines) per read group
    no_idx,           \* the no-conversions index: one position per record
    n_threads,        \* the n_threads argument
    deduplicate,      \* the deduplicate argument
    parts,            \* parts, once split
    no_parts,         \* no_parts, once split
    task,             \* state of every pool task: "queued" | "running" | "done" | "failed"
    temp,             \* the temporary counts file of every pool task
    combined,         \* the lines of the file at combined_path
    counts_file,      \* the lines of the file at counts_path
    malformed,        \* the line of an input file its grammar rejects, if any
    main_pc,          \* "split" | "pool" | "deduplicate" | "returned" | "raised"
    \* ---- the shared progress counter and the workers that add to it ----
    proc,             \* every worker's function, arguments, locals and position
    counter_value,    \* counter.value
    lock,             \* the holder of the lock, or None
    \* ---- extract_conversions (coordinator and workers) ----
    ex_index,         \* the index read from index_path
    ex_alignments,    \* the alignments argument: None or a set of keys
    ex_conversions,   \* the conversions argument: None or a set of types
    ex_n_threads,     \* the n_threads argument
    ex_parts,         \* parts, once split
    ex_task,          \* state of every pool task
    ex_result,        \* the tally every finished worker returned
    ex_convs,         \* the tally extract_conversions returns
    ex_pc,            \* "split" | "pool" | "returned" | "raised"
    \* ---- complement_counts ----
    cc_counts,        \* the df_counts argument
    gene_infos,       \* the gene_infos argument: strand of every gene
    cc_result,        \* the table returned
    cc_pc,            \* "call" | "returned"
    \* ---- estimation.pi.split_matrix ----
    sm_matrix,        \* the matrix argument: a value for every (barcode, feature)
    sm_pis,           \* the pis argument: (barcode, feature) -> pi, in quarters
    sm_result,        \* the tuple returned
    sm_pc,            \* "call" | "returned"
    \* ---- count(): the stages and their re-run decisions ----
    re,               \* the re argument: None or one of config.RE_CHOICES
    exists,           \* for every stage, whether all its output files exist
    stage,            \* the stage whose condition is evaluated next
    decision,         \* the branch taken at every stage decided so far
    count_pc          \* "run" | "returned" | "raised"

partVars == <<snps, quality, n_lines, update_every, scanned, i, read_id, counts,
              count_base, groups, prev_groups, out, counter, pc>>

dedupVars == <<df_counts, df_deduplicated, dedup_pc>>

snpVars == <<convs, coverage, threshold, min_coverage, todo, snp_rows, snp_pc>>

mainVars == <<idx, no_idx, n_threads, deduplicate, parts, no_parts, task, temp,
              combined, counts_file, malformed, main_pc>>

progressVars == <<proc, counter_value, lock>>

extractVars == <<ex_index, ex_alignments, ex_conversions, ex_n_threads, ex_parts,
                 ex_task, ex_result, ex_convs, ex_pc>>

complementVars == <<cc_counts, gene_infos, cc_result, cc_pc>>

splitVars == <<sm_matrix, sm_pis, sm_result, sm_pc>>

countVars == <<re, exists, stage, decision, count_pc>>

vars == <<partVars, dedupVars, snpVars, mainVars, progressVars, extractVars, complementVars,
          splitVars, countVars>>

----------------------------------------------------------------------------
\* Bounds of the model.
MaxLines == 3
UpdateEvery == 2
MaxRows == 3
MaxGroups == 3
MaxNoConversions == 3
MaxThreads == 2

\* Python's None.
None == "None"

\* Every line of both input files matches its grammar.
NoMalformed == [file |-> "none", line |-> 0]

----------------------------------------------------------------------------
\* Record grammar and column layout.

Bases == {"A", "C", "G", "T"}

\* CONVERSION_IDX: (original, converted) -> column index.
CONVERSION_IDX(pair) ==
    CASE pair = <<"A", "C">> -> 0
      [] pair = <<"A", "G">> -> 1
      [] pair = <<"A", "T">> -> 2
      [] pair = <<"C", "A">> -> 3
      [] pair = <<"C", "G">> -> 4
      [] pair = <<"C", "T">> -> 5
      [] pair = <<"G", "A">> -> 6
      [] pair = <<"G", "C">> -> 7
      [] pair = <<"G", "T">> -> 8
      [] pair = <<"T", "A">> -> 9
      [] pair = <<"T", "C">> -> 10
      [] pair = <<"T", "G">> -> 11

\* BASE_IDX: base -> column index.
BASE_IDX(base) ==
    CASE base = "A" -> 12
      [] base = "C" -> 13
      [] base = "G" -> 14
      [] base = "T" -> 15

\* The 12 ordered pairs of distinct bases, the keys of CONVERSION_IDX.
ConversionPairs == {<<o, c>> : o \in Bases, c \in Bases} \ {<<b, b>> : b \in Bases}

\* len(CONVERSION_IDX) + len(BASE_IDX)
NColumns == Cardinality(ConversionPairs) + Cardinality(Bases)

\* A python list index k is position k + 1 of a TLA+ sequence.
At(list, k) == list[k + 1]
ListSet(list, k, v) == [list EXCEPT ![k + 1] = v]

----------------------------------------------------------------------------
\* Inputs: the reads of the modelled conversions file and their records.

ReadIds == {"r1", "r2"}

\* The read-level fields every record of a read carries.
ReadInfo(r) ==
    IF r = "r1"
    THEN [barcode |-> "b1", umi |-> "u1", GX |-> "g1", A |-> 3, C |-> 2, G |-> 1, T |-> 4,
          velocity |-> "spliced", transcriptome |-> TRUE]
    ELSE [barcode |-> "b2", umi |-> "u2", GX |-> "g2", A |-> 1, C |-> 1, G |-> 2, T |-> 0,
          velocity |-> "unspliced", transcriptome |-> FALSE]

Contigs == {"chr1"}
Positions == {5}
RecordPairs == {<<"A", "C">>, <<"G", "T">>}
Qualities == {10, 27, 30}
QualityThresholds == {20, 27}

\* groupdict() of one line matched by CONVERSIONS_PARSER, numeric fields as
\* the integers int() makes of them.
\* The grammar does not tie the base content of a line to that of the other
\* lines of its read: one record of r1 carries another A and T.
Records ==
    LET parsed ==
          {[read_id |-> r, barcode |-> ReadInfo(r).barcode, umi |-> ReadInfo(r).umi,
            GX |-> ReadInfo(r).GX, contig |-> ct, genome_i |-> g,
            original |-> p[1], converted |-> p[2], quality |-> q,
            A |-> ReadInfo(r).A, C |-> ReadInfo(r).C, G |-> ReadInfo(r).G, T |-> ReadInfo(r).T,
            velocity |-> ReadInfo(r).velocity, transcriptome |-> ReadInfo(r).transcriptome] :
              r \in ReadIds, ct \in Contigs, g \in Positions, p \in RecordPairs, q \in Qualities}
    IN  parsed \cup
          {[x EXCEPT !.A = 7, !.T = 0] : x \in
              {y \in parsed : y.read_id = "r1" /\ y.original = "G" /\ y.quality = 30}}

\* The name read_snps gives a conversion type: original + converted.
ConversionName(pair) ==
    CASE pair = <<"A", "C">> -> "AC"
      [] pair = <<"A", "G">> -> "AG"
      [] pair = <<"A", "T">> -> "AT"
      [] pair = <<"C", "A">> -> "CA"
      [] pair = <<"C", "G">> -> "CG"
      [] pair = <<"C", "T">> -> "CT"
      [] pair = <<"G", "A">> -> "GA"
      [] pair = <<"G", "C">> -> "GC"
      [] pair = <<"G", "T">> -> "GT"
      [] pair = <<"T", "A">> -> "TA"
      [] pair = <<"T", "C">> -> "TC"
      [] pair = <<"T", "G">> -> "TG"

\* A nested dictionary key1 -> key2 -> set of positions is held as the set of
\* its paths <<key1, key2, position>>; Keys, Get and Members read it back.
Keys(table) == {e[1] : e \in table}
Get(table, k) == {<<e[2], e[3]>> : e \in {x \in table : x[1] = k}}
InnerKeys(inner) == {e[1] : e \in inner}
Members(inner, k) == {e[2] : e \in {x \in inner : x[1] = k}}

\* read_snps: the rows (contig, genome_i, original, converted) of the SNPs CSV
\* become conversion -> contig -> set of genome_i, the conversion being
\* original + converted.
read_snps(rows) ==
    {<<ConversionName(<<row.original, row.converted>>), row.contig, row.genome_i>> :
        row \in rows}

\* The SNP CSVs of the model: A>C flagged at chr1:5, where the records lie,
\* or at chr1:7, where none does.
SnpCsvs ==
    {{[contig |-> "chr1", genome_i |-> g, original |-> "A", converted |-> "C"]} : g \in {5, 7}}

\* The snps argument: None (none |-> TRUE) or a table read by read_snps, as
\* count() passes it.
NoSnps == [none |-> TRUE, table |-> {}]
SnpTables == {NoSnps} \cup {[none |-> FALSE, table |-> read_snps(rows)] : rows \in SnpCsvs}

----------------------------------------------------------------------------
\* count_conversions_part

\* Python values of different types never compare equal: a str key is held
\* as <<"str", s>> and an int as <<"int", n>>.
PyStr(x) == <<"str", x>>
PyInt(n) == <<"int", n>>

\* A position masked whatever the conversion type it is flagged for.
is_snp_of_any_type(s, g) ==
    ~s.none /\ \E e \in s.table : e[2] = g.contig /\ e[3] = g.genome_i

\* is_snp(g): `int(g['genome_i']) in snps.get(g['contig'], set())`.
\* snps.get looks the CONTIG up among the top-level keys of snps, which for
\* the table read_snps builds are conversion names.  The value found, if any,
\* is the inner dict contig -> positions, and `in` on a dict tests its keys
\* (str); the default set() has no member.
is_snp(s, g) ==
    IF s.none \/ s.table = {}
    THEN FALSE
    ELSE LET found == IF g.contig \in Keys(s.table)
                      THEN {PyStr(k) : k \in InnerKeys(Get(s.table, g.contig))}
                      ELSE {}
         IN  PyInt(g.genome_i) \in found

\* The row line written for a read: identity fields of `g`, the 16 counts.
CountRow(g, cnts) ==
    [barcode |-> g.barcode, umi |-> g.umi, GX |-> g.GX, counts |-> cnts,
     velocity |-> g.velocity, transcriptome |-> g.transcriptome]

ZeroCounts == [k \in 1..NColumns |-> 0]

\* Counted with the quality comparison not strict.
CountedAtThreshold(table, minq, g) == g.quality >= minq /\ ~is_snp(table, g)

\* Whether the record is counted as a conversion (line 280).
Counted(table, minq, g) == g.quality > minq /\ ~is_snp(table, g)

\* counts after lines 280-285 for record g.
CountRecord(table, minq, cnts, doBase, g) ==
    LET k  == CONVERSION_IDX(<<g.original, g.converted>>)
        c1 == IF Counted(table, minq, g)
              THEN ListSet(cnts, k, At(cnts, k) + 1)
              ELSE cnts
    IN  IF doBase
        THEN [j \in 1..NColumns |->
                CASE j = BASE_IDX("A") + 1 -> g.A
                  [] j = BASE_IDX("C") + 1 -> g.C
                  [] j = BASE_IDX("G") + 1 -> g.G
                  [] j = BASE_IDX("T") + 1 -> g.T
                  [] OTHER -> c1[j]]
        ELSE c1

\* FlushesOn flushing at every record once a read is accumulating.
FlushesOnEveryRecord(rid, g) == rid # None

\* Whether the loop flushes the previous read at record g (lines 271-272).
FlushesOn(rid, g) == rid # g.read_id /\ rid # None

\* counter.value after the in-loop update of lines 287-290.
LoopCounter(cnt, k, every) == IF (k + 1) % every = 0 THEN cnt + every ELSE cnt

\* The variables of the other specifications, at rest.
DedupIdle == df_counts = <<>> /\ df_deduplicated = <<>> /\ dedup_pc = "idle"

MainIdle ==
    /\ idx = <<>> /\ no_idx = <<>> /\ n_threads = 1 /\ deduplicate = FALSE
    /\ parts = <<>> /\ no_parts = <<>> /\ task = <<>> /\ temp = <<>>
    /\ combined = <<>> /\ counts_file = <<>> /\ malformed = NoMalformed /\ main_pc = "idle"

ProgressIdle == proc = <<>> /\ counter_value = 0 /\ lock = None

ExtractIdle ==
    /\ ex_index = <<>> /\ ex_alignments = [none |-> TRUE, keys |-> {}]
    /\ ex_conversions = [none |-> TRUE, types |-> {}] /\ ex_n_threads = 1
    /\ ex_parts = <<>> /\ ex_task = <<>> /\ ex_result = <<>> /\ ex_convs = <<>>
    /\ ex_pc = "idle"

ComplementIdle ==
    /\ cc_counts = <<>> /\ gene_infos = <<>> /\ cc_result = <<>> /\ cc_pc = "idle"

SplitIdle ==
    /\ sm_matrix = <<>> /\ sm_pis = <<>> /\ sm_result = <<>> /\ sm_pc = "idle"

CountIdle ==
    /\ re = None /\ exists = <<>> /\ stage = 0 /\ decision = <<>> /\ count_pc = "idle"

SnpIdle ==
    /\ convs = <<>> /\ coverage = <<>> /\ threshold = <<0, 1>> /\ min_coverage = 0
    /\ todo = {} /\ snp_rows = <<>> /\ snp_pc = "idle"

InitPart ==
    /\ snps \in SnpTables
    /\ quality \in QualityThresholds
    /\ n_lines \in 0..MaxLines
    /\ update_every = UpdateEvery
    /\ scanned = <<>>
    /\ i = 0
    /\ read_id = None
    /\ counts = None
    /\ count_base = TRUE
    /\ groups = None
    /\ prev_groups = None
    /\ out = <<>>
    /\ counter = 0
    /\ pc = "loop"
    /\ DedupIdle
    /\ SnpIdle
    /\ MainIdle
    /\ ProgressIdle
    /\ ExtractIdle
    /\ ComplementIdle
    /\ SplitIdle
    /\ CountIdle

\* The locals of the worker that the loop body reads and writes.
Locals ==
    [read_id |-> read_id, counts |-> counts, count_base |-> count_base,
     groups |-> groups, prev_groups |-> prev_groups, out |-> out]

\* The locals before the first line is read (lines 258-265).
InitialLocals ==
    [read_id |-> None, counts |-> None, count_base |-> TRUE,
     groups |-> None, prev_groups |-> None, out |-> <<>>]

\* The row written with the fields of the record that triggers the flush.
FlushedRowOfNextRead(prev, g, cnts) == CountRow(g, cnts)

\* Lines 273-276: the row of the read that ended, with the identity fields
\* of prev_groups, its last record.
FlushedRow(prev, g, cnts) == CountRow(prev, cnts)

\* count_base true at every record.
CountBaseAtEveryRecord(newRead, flag) == TRUE

\* count_base at line 282: set again when a new read starts (line 278), else
\* as the previous record left it.
CountBase(newRead, flag) == IF newRead THEN TRUE ELSE flag

\* The body of the loop for the parsed line g (lines 268-285).
LoopBody(st, table, minq, g) ==
    LET prev    == st.groups
        newRead == st.read_id # g.read_id
        base    == IF newRead THEN ZeroCounts ELSE st.counts
        doBase  == CountBase(newRead, st.count_base)
    IN  [read_id     |-> g.read_id,
         counts      |-> CountRecord(table, minq, base, doBase, g),
         count_base  |-> FALSE,
         groups      |-> g,
         prev_groups |-> prev,
         out         |-> IF FlushesOn(st.read_id, g)
                         THEN Append(st.out, FlushedRow(prev, g, st.counts))
                         ELSE st.out]

\* The file left as the loop left it.
AddLastRecordOmitted(st) == st.out

\* "Add last record" (lines 292-297): the file after the loop.
AddLastRecord(st) ==
    IF st.read_id # None THEN Append(st.out, CountRow(st.groups, st.counts)) ELSE st.out

\* One iteration of `for i in range(n_lines)` (lines 266-290); the line read
\* is any record of the grammar.
ReadRecord ==
    /\ pc = "loop"
    /\ i < n_lines
    /\ \E g \in Records :
        LET st == LoopBody(Locals, snps, quality, g)
        IN  /\ scanned' = Append(scanned, g)
            /\ prev_groups' = st.prev_groups
            /\ groups' = st.groups
            /\ out' = st.out
            /\ read_id' = st.read_id
            /\ counts' = st.counts
            /\ count_base' = st.count_base
    /\ counter' = LoopCounter(counter, i, update_every)
    /\ i' = i + 1
    /\ UNCHANGED <<snps, quality, n_lines, update_every, pc>>
    /\ UNCHANGED <<dedupVars, snpVars, mainVars, progressVars, extractVars,
                   complementVars, splitVars, countVars>>

\* After the loop: "Add last record" and the final counter update (lines
\* 292-303).
FinalFlush ==
    /\ pc = "loop"
    /\ i = n_lines
    /\ out' = AddLastRecord(Locals)
    /\ counter' = counter + (n_lines % update_every)
    /\ pc' = "done"
    /\ UNCHANGED <<snps, quality, n_lines, update_every, scanned, i, read_id, counts,
                   count_base, groups, prev_groups>>
    /\ UNCHANGED <<dedupVars, snpVars, mainVars, progressVars, extractVars,
                   complementVars, splitVars, countVars>>

NextPart == ReadRecord \/ FinalFlush

SpecPart == InitPart /\ [][NextPart]_vars

----------------------------------------------------------------------------
\* deduplicate_counts

PartIdle ==
    /\ snps = NoSnps /\ quality = 0 /\ n_lines = 0 /\ update_every = 1
    /\ scanned = <<>> /\ i = 0 /\ read_id = None /\ counts = None
    /\ count_base = TRUE /\ groups = None /\ prev_groups = None
    /\ out = <<>> /\ counter = 0 /\ pc = "idle"

\* The rows of the modelled counts tables: two (barcode, umi, GX) keys, two
\* base contents (sums 10 and 20), a T>C count, transcriptome either way.
DedupKeys == {<<"b1", "u1", "g1">>, <<"b2", "u1", "g1">>}
DedupBaseContents == {<<3, 2, 1, 4>>, <<6, 4, 2, 8>>}
DedupConversions == {0, 2}

TableRow(key, bases, tc, tr) ==
    [barcode |-> key[1], umi |-> key[2], GX |-> key[3],
     counts |-> [j \in 1..NColumns |->
                    CASE j = CONVERSION_IDX(<<"T", "C">>) + 1 -> tc
                      [] j = BASE_IDX("A") + 1 -> bases[1]
                      [] j = BASE_IDX("C") + 1 -> bases[2]
                      [] j = BASE_IDX("G") + 1 -> bases[3]
                      [] j = BASE_IDX("T") + 1 -> bases[4]
                      [] OTHER -> 0],
     velocity |-> "spliced", transcriptome |-> tr]

TableRows ==
    {TableRow(key, bases, tc, tr) :
        key \in DedupKeys, bases \in DedupBaseContents, tc \in DedupConversions,
        tr \in BOOLEAN}

\* df_counts[BASE_COLUMNS].sum(axis=1) of one row.
base_sum(row) ==
    At(row.counts, BASE_IDX("A")) + At(row.counts, BASE_IDX("C"))
        + At(row.counts, BASE_IDX("G")) + At(row.counts, BASE_IDX("T"))

\* The order of bool values in a sort: False before True.
BoolRank(b) == IF b THEN 1 ELSE 0

\* SortKeyLess comparing transcriptome before base_sum.
SortKeyLessTranscriptomeFirst(a, b) ==
    \/ BoolRank(a.transcriptome) < BoolRank(b.transcriptome)
    \/ a.transcriptome = b.transcriptome /\ base_sum(a) < base_sum(b)

\* sort_values(['base_sum', 'transcriptome']): whether row a sorts strictly
\* before row b.
SortKeyLess(a, b) ==
    \/ base_sum(a) < base_sum(b)
    \/ base_sum(a) = base_sum(b) /\ BoolRank(a.transcriptome) < BoolRank(b.transcriptome)

\* The sort by several columns is stable (a lexsort): rows with equal keys
\* keep their order.  Position in df_sorted of the row at position k of t.
SortedPosition(t, k) ==
    1 + Cardinality({m \in 1..Len(t) : \/ SortKeyLess(t[m], t[k])
                                        \/ (~SortKeyLess(t[k], t[m]) /\ m < k)})

\* df_sorted
SortValues(t) ==
    [p \in 1..Len(t) |-> t[CHOOSE k \in 1..Len(t) : SortedPosition(t, k) = p]]

\* The key without the barcode.
DedupKeyUmiGene(row) == <<row.umi, row.GX>>

\* subset=['barcode', 'umi', 'GX']
DedupKey(row) == <<row.barcode, row.umi, row.GX>>

\* duplicated(subset=..., keep='last'): every occurrence of a key but the last.
Duplicated(t, p) == \E q \in (p + 1)..Len(t) : DedupKey(t[q]) = DedupKey(t[p])

\* The rows of t from position p on that are not marked duplicated, in order.
RECURSIVE NotDuplicatedFrom(_, _)
NotDuplicatedFrom(t, p) ==
    IF p > Len(t) THEN <<>>
    ELSE (IF Duplicated(t, p) THEN <<>> ELSE <<t[p]>>) \o NotDuplicatedFrom(t, p + 1)

\* df_sorted[~df_sorted.duplicated(subset=[...], keep='last')]
DropDuplicated(t) == NotDuplicatedFrom(t, 1)

\* The order of the barcodes of the model in a sort.
BarcodeRank(b) == IF b = "b1" THEN 1 ELSE 2

\* The orders a sort may give n rows: the permutations of 1..n.
RowOrders ==
    [n \in 0..(MaxRows + 1) |->
        {f \in [1..n -> 1..n] : \A x, y \in 1..n : x # y => f[x] # f[y]}]

\* The rows left in the order they come in.
NotSortedByBarcode(t) == {t}

\* sort_values('barcode'): a sort by one column uses quicksort, which is not
\* stable, so rows of one barcode may come out in any order.
SortedByBarcode(t) ==
    {[p \in 1..Len(t) |-> t[f[p]]] :
        f \in {g \in RowOrders[Len(t)] :
                  \A x \in 1..(Len(t) - 1) :
                      BarcodeRank(t[g[x]].barcode) <= BarcodeRank(t[g[x + 1]].barcode)}}

\* The tables deduplicate_counts may return for t.
deduplicate_counts(t) == SortedByBarcode(DropDuplicated(SortValues(t)))

\* Before the call: the table is empty and read_counts has rows to read.
InitDedup ==
    /\ df_counts = <<>>
    /\ df_deduplicated = <<>>
    /\ dedup_pc = "read"
    /\ PartIdle
    /\ SnpIdle
    /\ MainIdle
    /\ ProgressIdle
    /\ ExtractIdle
    /\ ComplementIdle
    /\ SplitIdle
    /\ CountIdle

\* read_counts reads one more row of the combined CSV into the table.
ReadCountsRow ==
    /\ dedup_pc = "read"
    /\ Len(df_counts) < MaxRows
    /\ \E row \in TableRows : df_counts' = Append(df_counts, row)
    /\ UNCHANGED <<df_deduplicated, dedup_pc>>
    /\ UNCHANGED <<partVars, snpVars, mainVars, progressVars, extractVars,
                   complementVars, splitVars, countVars>>

\* deduplicate_counts(read_counts(combined_path))
Deduplicate ==
    /\ dedup_pc = "read"
    /\ df_deduplicated' \in deduplicate_counts(df_counts)
    /\ dedup_pc' = "returned"
    /\ UNCHANGED df_counts
    /\ UNCHANGED <<partVars, snpVars, mainVars, progressVars, extractVars,
                   complementVars, splitVars, countVars>>

NextDedup == ReadCountsRow \/ Deduplicate

SpecDedup == InitDedup /\ [][NextDedup]_vars

----------------------------------------------------------------------------
\* detect_snps: the loop that writes the detected SNPs (lines 233-244).  A
\* nested dictionary is held as a function from its paths to its leaves.

DetectConversions == {"AC", "TC"}
DetectPositions == {<<"chr1", 5>>, <<"chr1", 7>>}
DetectCounts == {1, 5, 6}
DetectDepths == {2, 10}
DetectThresholds == {<<1, 2>>}
DetectMinCoverages == {1, 3}

\* The functions from a subset of S to T: the dictionaries with keys in S.
Dicts(S, T) == UNION {[D -> T] : D \in SUBSET S}

\* d.get(k, default)
GetOr(d, k, default) == IF k \in DOMAIN d THEN d[k] ELSE default

\* convs[conversion]: the contig -> genome_i -> count dictionary of one conversion.
ConvsOf(cv) ==
    [key \in {k \in DetectPositions : <<cv, k[1], k[2]>> \in DOMAIN convs} |->
        convs[<<cv, key[1], key[2]>>]]

\* operator.truediv raises ZeroDivisionError on a zero divisor.
TruedivRaises(a, b) == b = 0

\* operator.truediv: the quotient a / b as the fraction <<a, b>>.
truediv(a, b) == <<a, b>>

\* x > y for fractions with positive denominators.
FractionGreater(x, y) == x[1] * y[2] > y[1] * x[2]

\* utils.merge_dictionaries(d1, d2, f=truediv): f applied, at every path of
\* either dictionary, to the two values there, a missing one taken as the
\* default 0.
MergeKeys(d1, d2) == DOMAIN d1 \cup DOMAIN d2
MergeRaises(d1, d2) ==
    \E k \in MergeKeys(d1, d2) : TruedivRaises(GetOr(d1, k, 0), GetOr(d2, k, 0))
merge_dictionaries(d1, d2) ==
    [k \in MergeKeys(d1, d2) |-> truediv(GetOr(d1, k, 0), GetOr(d2, k, 0))]

\* utils.flatten_dictionary(fractions): the (path, leaf) pairs, in path order.
RECURSIVE flatten_dictionary(_, _)
flatten_dictionary(d, keys) ==
    IF keys = {} THEN <<>>
    ELSE LET k == CHOOSE x \in keys : \A y \in keys : x[2] <= y[2]
         IN  <<k>> \o flatten_dictionary(d, keys \ {k})

\* The comparison of line 241 with >= in place of >.
PassesAtThreshold(key, fraction) ==
    coverage[key] >= min_coverage /\ ~FractionGreater(threshold, fraction)

\* Line 241: coverage[contig][genome_i] >= min_coverage and fraction > threshold.
Passes(key, fraction) ==
    coverage[key] >= min_coverage /\ FractionGreater(fraction, threshold)

\* The inverse of ConversionName: conversion[0], conversion[1].
ConversionBases(cv) == CHOOSE pair \in ConversionPairs : ConversionName(pair) = cv

\* The row with the two bases of the conversion in each other's column.
SnpRowBasesSwapped(key, cv) ==
    [contig |-> key[1], genome_i |-> key[2],
     original |-> ConversionBases(cv)[2], converted |-> ConversionBases(cv)[1]]

SnpRow(key, cv) ==
    [contig |-> key[1], genome_i |-> key[2],
     original |-> ConversionBases(cv)[1], converted |-> ConversionBases(cv)[2]]

\* The rows the inner loop writes for one conversion.
RECURSIVE WriteRows(_, _, _)
WriteRows(cv, fractions, flat) ==
    IF flat = <<>> THEN <<>>
    ELSE (IF Passes(Head(flat), fractions[Head(flat)])
          THEN <<SnpRow(Head(flat), cv)>> ELSE <<>>)
         \o WriteRows(cv, fractions, Tail(flat))

\* coverage[contig][genome_i] raises KeyError on a missing contig or position.
CoverageLookupRaises(keys) == \E k \in keys : k \notin DOMAIN coverage

\* Line 233: extract_conversions has returned, snps_path is open and holds
\* the header.
InitSnp ==
    /\ convs \in Dicts({<<cv, k[1], k[2]>> : cv \in DetectConversions, k \in DetectPositions},
                       DetectCounts)
    /\ coverage \in Dicts(DetectPositions, DetectDepths)
    /\ threshold \in DetectThresholds
    /\ min_coverage \in DetectMinCoverages
    /\ todo = {k[1] : k \in DOMAIN convs}
    /\ snp_rows = <<>>
    /\ snp_pc = "loop"
    /\ PartIdle
    /\ DedupIdle
    /\ MainIdle
    /\ ProgressIdle
    /\ ExtractIdle
    /\ ComplementIdle
    /\ SplitIdle
    /\ CountIdle

\* One iteration of `for conversion, _convs in convs.items()` that completes.
DetectConversion ==
    /\ snp_pc = "loop"
    /\ \E cv \in todo :
        /\ ~MergeRaises(ConvsOf(cv), coverage)
        /\ ~CoverageLookupRaises(MergeKeys(ConvsOf(cv), coverage))
        /\ LET fractions == merge_dictionaries(ConvsOf(cv), coverage)
           IN  snp_rows' = snp_rows \o
                    WriteRows(cv, fractions, flatten_dictionary(fractions, DOMAIN fractions))
        /\ todo' = todo \ {cv}
    /\ UNCHANGED <<convs, coverage, threshold, min_coverage, snp_pc>>
    /\ UNCHANGED <<partVars, dedupVars, mainVars, progressVars, extractVars,
                   complementVars, splitVars, countVars>>

\* An iteration that raises: the division in merge_dictionaries, or the
\* coverage lookup of line 241.
DetectRaises ==
    /\ snp_pc = "loop"
    /\ \E cv \in todo :
        \/ MergeRaises(ConvsOf(cv), coverage)
        \/ CoverageLookupRaises(MergeKeys(ConvsOf(cv), coverage))
    /\ snp_pc' = "raised"
    /\ UNCHANGED <<convs, coverage, threshold, min_coverage, todo, snp_rows>>
    /\ UNCHANGED <<partVars, dedupVars, mainVars, progressVars, extractVars,
                   complementVars, splitVars, countVars>>

\* The loop is over: return snps_path.
DetectReturn ==
    /\ snp_pc = "loop"
    /\ todo = {}
    /\ snp_pc' = "returned"
    /\ UNCHANGED <<convs, coverage, threshold, min_coverage, todo, snp_rows>>
    /\ UNCHANGED <<partVars, dedupVars, mainVars, progressVars, extractVars,
                   complementVars, splitVars, countVars>>

\* count.py line 308: the file detect_snps returned is loaded with
\* read_snps(snps_path) to be the snps argument of count_conversions.
ReadSnps ==
    /\ snp_pc = "returned"
    /\ snps' = [none |-> FALSE, table |-> read_snps({snp_rows[k] : k \in 1..Len(snp_rows)})]
    /\ snp_pc' = "loaded"
    /\ UNCHANGED <<quality, n_lines, update_every, scanned, i, read_id, counts, count_base,
                   groups, prev_groups, out, counter, pc>>
    /\ UNCHANGED <<convs, coverage, threshold, min_coverage, todo, snp_rows>>
    /\ UNCHANGED <<dedupVars, mainVars, progressVars, extractVars, complementVars, splitVars, countVars>>

NextSnp == DetectConversion \/ DetectRaises \/ DetectReturn \/ ReadSnps

SpecSnp == InitSnp /\ [][NextSnp]_vars

----------------------------------------------------------------------------
\* count_conversions: the inputs.

\* The quality argument's default.
DefaultQuality == 20

\* The read of the k-th read group of the conversions file.
ReadNames == <<"r1", "r2", "r3", "r4", "r5", "r6">>

\* Number of records of a read group.
GroupSizes == {1, 2}

\* The conversions index of a file whose read groups have the given sizes:
\* one (pos, n_lines) entry per read group, positions counted in records.
RECURSIVE IndexFrom(_, _, _)
IndexFrom(sizes, k, pos) ==
    IF k > Len(sizes) THEN <<>>
    ELSE <<[pos |-> pos, n_lines |-> sizes[k]]>> \o IndexFrom(sizes, k + 1, pos + sizes[k])

Indexes == {IndexFrom(sizes, 1, 0) : sizes \in UNION {[1..n -> GroupSizes] : n \in 0..MaxGroups}}

\* The j-th record of read group k: A>C first, then G>T, all of quality 30.
GroupRecord(k, j) ==
    LET r == ReadNames[k]
    IN  [read_id |-> r, barcode |-> ReadInfo(r).barcode, umi |-> ReadInfo(r).umi,
         GX |-> ReadInfo(r).GX, contig |-> "chr1", genome_i |-> 5,
         original |-> IF j = 1 THEN "A" ELSE "G", converted |-> IF j = 1 THEN "C" ELSE "T",
         quality |-> 30,
         A |-> ReadInfo(r).A, C |-> ReadInfo(r).C, G |-> ReadInfo(r).G, T |-> ReadInfo(r).T,
         velocity |-> ReadInfo(r).velocity, transcriptome |-> ReadInfo(r).transcriptome]

\* The parsed lines of the conversions file that an index describes.
RECURSIVE ConversionsFile(_, _)
ConversionsFile(index, k) ==
    IF k > Len(index) THEN <<>>
    ELSE [j \in 1..index[k].n_lines |-> GroupRecord(k, j)] \o ConversionsFile(index, k + 1)

\* The no-conversions index: the position of every record, counted in records.
NoIndex(n) == [k \in 1..n |-> k - 1]

\* groupdict() of the line at position pos of the no-conversions file.
NoConversionsRecord(pos) ==
    [read_id |-> "n", barcode |-> "b1", umi |-> "u3", GX |-> "g1",
     A |-> 2 + pos, C |-> 2, G |-> 2, T |-> 2, velocity |-> "unspliced", transcriptome |-> FALSE]

----------------------------------------------------------------------------
\* count_conversions: the split.

\* index.split_index(idx, n): contiguous groups of whole index entries, in
\* order, N of them (fewer when the index has fewer entries, none when it is
\* empty), none empty, with totals as balanced as possible; each group is
\* handed on as (pos of its first entry, total n_lines).  A grouping is the
\* set of the entries after which it cuts.
RECURSIVE PartsOfCuts(_, _, _, _, _)
PartsOfCuts(index, cuts, k, pos, size) ==
    IF k > Len(index) THEN <<>>
    ELSE LET start == IF size = 0 THEN index[k].pos ELSE pos
             total == size + index[k].n_lines
         IN  IF k \in cuts \/ k = Len(index)
             THEN <<[pos |-> start, n_lines |-> total]>>
                      \o PartsOfCuts(index, cuts, k + 1, 0, 0)
             ELSE PartsOfCuts(index, cuts, k + 1, start, total)

Min(a, b) == IF a <= b THEN a ELSE b

LargestPart(ps) == CHOOSE x \in {ps[j].n_lines : j \in 1..Len(ps)} :
                        \A j \in 1..Len(ps) : ps[j].n_lines <= x

Groupings(index, n) ==
    {PartsOfCuts(index, cuts, 1, 0, 0) :
        cuts \in {c \in SUBSET (1..(Len(index) - 1)) : Cardinality(c) + 1 = Min(n, Len(index))}}

\* A split into runs of equal record counts that takes no notice of the entries.
RECURSIVE LinesFrom(_, _, _)
LinesFrom(total, step, k) ==
    IF k >= total THEN <<>>
    ELSE <<[pos |-> k, n_lines |-> Min(step, total - k)]>> \o LinesFrom(total, step, k + step)

split_lines(index, n) ==
    {LinesFrom(Len(ConversionsFile(index, 1)), (Len(ConversionsFile(index, 1)) \div n) + 1, 0)}

split_index(index, n) ==
    IF index = <<>> THEN {<<>>}
    ELSE {ps \in Groupings(index, n) :
            \A qs \in Groupings(index, n) : LargestPart(ps) <= LargestPart(qs)}

\* NoPartLines taking what is left over after whole steps.
NoPartLinesLeftOver(index, n, k) == (Len(index) - k) % ((Len(index) \div n) + 1)

\* NoPartLines always taking a whole step.
NoPartLinesWholeStep(index, n, k) == (Len(index) \div n) + 1

\* min((len(no_idx) // n_threads) + 1, len(no_idx[i:])) (line 354), k = i.
NoPartLines(index, n, k) == Min((Len(index) \div n) + 1, Len(index) - k)

\* The loop of lines 352-354 from i = k on.
RECURSIVE NoPartsFrom(_, _, _)
NoPartsFrom(index, n, k) ==
    IF k >= Len(index) THEN <<>>
    ELSE <<[pos |-> At(index, k), n_lines |-> NoPartLines(index, n, k)]>>
             \o NoPartsFrom(index, n, k + (Len(index) \div n) + 1)

----------------------------------------------------------------------------
\* count_conversions: the workers.

\* count_conversions_part on the given lines: the rows of its temporary file.
RECURSIVE LoopFrom(_, _, _, _, _)
LoopFrom(st, table, minq, lines, k) ==
    IF k > Len(lines) THEN st
    ELSE LoopFrom(LoopBody(st, table, minq, lines[k]), table, minq, lines, k + 1)

count_conversions_part(lines, table, minq) ==
    AddLastRecord(LoopFrom(InitialLocals, table, minq, lines, 1))

\* A row with the default "0" in every count column.
NoConversionsRowAllDefault(g) ==
    [barcode |-> g.barcode, umi |-> g.umi, GX |-> g.GX,
     counts |-> [j \in 1..NColumns |-> 0],
     velocity |-> g.velocity, transcriptome |-> g.transcriptome]

\* The row count_no_conversions_part writes for a line (lines 196-200):
\* groups.get(key, "0") for every column.
NoConversionsRow(g) ==
    [barcode |-> g.barcode, umi |-> g.umi, GX |-> g.GX,
     counts |-> [j \in 1..NColumns |->
                    CASE j = BASE_IDX("A") + 1 -> g.A
                      [] j = BASE_IDX("C") + 1 -> g.C
                      [] j = BASE_IDX("G") + 1 -> g.G
                      [] j = BASE_IDX("T") + 1 -> g.T
                      [] OTHER -> 0],
     velocity |-> g.velocity, transcriptome |-> g.transcriptome]

\* count_no_conversions_part from position pos for n lines.
count_no_conversions_part(pos, n) == [k \in 1..n |-> NoConversionsRow(NoConversionsRecord(pos + k - 1))]

\* The tasks of the pool: one per part and one per no part.
Tasks == {<<"conversions", j>> : j \in 1..Len(parts)}
             \cup {<<"no_conversions", j>> : j \in 1..Len(no_parts)}

\* The part a task was given and the number of lines of the file it reads.
PartOf(t) == IF t[1] = "conversions" THEN parts[t[2]] ELSE no_parts[t[2]]
FileLength(t) ==
    IF t[1] = "conversions" THEN Len(ConversionsFile(idx, 1)) ELSE Len(no_idx)

\* The inputs with a line their grammar rejects (a wrong number of columns,
\* no trailing newline): the middle or the last line of one of the files.
MalformedLines(index, noindex) ==
    {NoMalformed}
    \cup {[file |-> "conversions", line |-> k] :
            k \in {Len(ConversionsFile(index, 1)) \div 2,
                   Len(ConversionsFile(index, 1)) - 1}
                      \cap (0..(Len(ConversionsFile(index, 1)) - 1))}
    \cup {[file |-> "no_conversions", line |-> k] :
            k \in {Len(noindex) \div 2, Len(noindex) - 1} \cap (0..(Len(noindex) - 1))}

\* A grammar that matches whatever the line holds.
MatchesAnyLine(file, k) == TRUE

\* CONVERSIONS_PARSER.match(line) / NO_CONVERSIONS_PARSER.match(line) is not
\* None, for line k (from 0) of the file.
Matches(file, k) == ~(malformed.file = file /\ malformed.line = k)

\* The lines a task reads before .groupdict() raises on a line that did
\* not match (AttributeError), all its lines if none does.
LinesRead(t) ==
    LET rejected == {k \in PartOf(t).pos..(PartOf(t).pos + PartOf(t).n_lines - 1) :
                        ~Matches(t[1], k)}
    IN  IF rejected = {} THEN PartOf(t).n_lines
        ELSE (CHOOSE k \in rejected : \A j \in rejected : k <= j) - PartOf(t).pos

TaskRaises(t) == LinesRead(t) < PartOf(t).n_lines

\* The temporary file of a task: what count_conversions_part or
\* count_no_conversions_part returns when it reads its lines to the end, the
\* rows written before the exception when it raises.
TaskOutput(t) ==
    IF t[1] = "conversions"
    THEN IF TaskRaises(t)
         THEN LoopFrom(InitialLocals, NoSnps, DefaultQuality,
                       SubSeq(ConversionsFile(idx, 1), PartOf(t).pos + 1,
                              PartOf(t).pos + LinesRead(t)), 1).out
         ELSE count_conversions_part(
                  SubSeq(ConversionsFile(idx, 1), PartOf(t).pos + 1,
                         PartOf(t).pos + PartOf(t).n_lines),
                  NoSnps, DefaultQuality)
    ELSE count_no_conversions_part(PartOf(t).pos, LinesRead(t))

----------------------------------------------------------------------------
\* count_conversions: the merge.

HeaderLine == [kind |-> "header", row |-> <<>>]
RowLine(r) == [kind |-> "row", row |-> r]
RowLines(rows) == [k \in 1..Len(rows) |-> RowLine(rows[k])]

\* The temporary files of the tasks of one kind, copied one after the other
\* in the order of the parts (the order of async_result.get()).
RECURSIVE CopyParts(_, _, _, _)
CopyParts(files, kind, j, n) ==
    IF j > n THEN <<>>
    ELSE RowLines(files[<<kind, j>>]) \o CopyParts(files, kind, j + 1, n)

\* CombinedLines without the second loop.
CombinedLinesConversionsOnly(files, nc, nn) ==
    <<HeaderLine>> \o CopyParts(files, "conversions", 1, nc)

\* Lines 384-391 when a result list holds a failed task: the header is
\* written, async_result.get() raises before the first copy if a conversions
\* task failed, else no_async_result.get() raises after the conversions parts
\* are copied.
CombinedLinesUntilRaise(files, nc, nn, conversionsFailed) ==
    IF conversionsFailed THEN <<HeaderLine>>
    ELSE <<HeaderLine>> \o CopyParts(files, "conversions", 1, nc)

\* Lines 384-391: the header, the conversions parts, the no-conversions parts.
CombinedLines(files, nc, nn) ==
    <<HeaderLine>> \o CopyParts(files, "conversions", 1, nc)
                   \o CopyParts(files, "no_conversions", 1, nn)

\* read_counts(combined_path): the rows after the header.
read_counts(lines) == [k \in 1..(Len(lines) - 1) |-> lines[k + 1].row]

\* to_csv(counts_path, index=False): a header and the rows.
to_csv(rows) == <<HeaderLine>> \o RowLines(rows)

----------------------------------------------------------------------------
\* count_conversions: the coordinator and the pool.

Init ==
    /\ idx \in Indexes
    /\ no_idx \in {NoIndex(n) : n \in 0..MaxNoConversions}
    /\ n_threads \in 1..MaxThreads
    /\ deduplicate \in BOOLEAN
    /\ malformed \in MalformedLines(idx, no_idx)
    /\ parts = <<>> /\ no_parts = <<>> /\ task = <<>> /\ temp = <<>>
    /\ combined = <<>> /\ counts_file = <<>>
    /\ main_pc = "split"
    /\ PartIdle
    /\ DedupIdle
    /\ SnpIdle
    /\ ProgressIdle
    /\ ExtractIdle
    /\ ComplementIdle
    /\ SplitIdle
    /\ CountIdle

\* Lines 349-374: split both indexes and queue one task per part.
Split ==
    /\ main_pc = "split"
    /\ parts' \in split_index(idx, n_threads)
    /\ no_parts' = NoPartsFrom(no_idx, n_threads, 0)
    /\ task' = [t \in {<<"conversions", j>> : j \in 1..Len(parts')}
                       \cup {<<"no_conversions", j>> : j \in 1..Len(no_parts')} |-> "queued"]
    /\ temp' = [t \in DOMAIN task' |-> <<>>]
    /\ main_pc' = "pool"
    /\ UNCHANGED <<idx, no_idx, n_threads, deduplicate, malformed, combined, counts_file>>
    /\ UNCHANGED <<partVars, dedupVars, snpVars, progressVars, extractVars,
                   complementVars, splitVars, countVars>>

\* A free process of the pool takes a queued task.
StartTask(t) ==
    /\ main_pc = "pool"
    /\ task[t] = "queued"
    /\ Cardinality({u \in Tasks : task[u] = "running"}) < n_threads
    /\ task' = [task EXCEPT ![t] = "running"]
    /\ UNCHANGED <<idx, no_idx, n_threads, deduplicate, malformed, parts, no_parts, temp,
                   combined, counts_file, main_pc>>
    /\ UNCHANGED <<partVars, dedupVars, snpVars, progressVars, extractVars,
                   complementVars, splitVars, countVars>>

\* A task reads its lines to the end and returns its temporary file.
FinishTask(t) ==
    /\ main_pc = "pool"
    /\ task[t] = "running"
    /\ PartOf(t).pos + PartOf(t).n_lines <= FileLength(t)
    /\ ~TaskRaises(t)
    /\ temp' = [temp EXCEPT ![t] = TaskOutput(t)]
    /\ task' = [task EXCEPT ![t] = "done"]
    /\ UNCHANGED <<idx, no_idx, n_threads, deduplicate, malformed, parts, no_parts,
                   combined, counts_file, main_pc>>
    /\ UNCHANGED <<partVars, dedupVars, snpVars, progressVars, extractVars,
                   complementVars, splitVars, countVars>>

\* A task reaches a line that does not match: .groupdict() raises, the
\* temporary file keeps the rows written so far and the task's result is
\* the exception.
FailTask(t) ==
    /\ main_pc = "pool"
    /\ task[t] = "running"
    /\ TaskRaises(t)
    /\ temp' = [temp EXCEPT ![t] = TaskOutput(t)]
    /\ task' = [task EXCEPT ![t] = "failed"]
    /\ UNCHANGED <<idx, no_idx, n_threads, deduplicate, malformed, parts, no_parts,
                   combined, counts_file, main_pc>>
    /\ UNCHANGED <<partVars, dedupVars, snpVars, progressVars, extractVars,
                   complementVars, splitVars, countVars>>

\* A join that does not wait for the processes of the pool.
PoolJoinReturnsAtOnce == TRUE

\* Lines 377-379: display_progress_with_counter and pool.join() return when
\* every task of both starmap_async calls has ended, with a result or with
\* an exception.
PoolJoined == \A t \in Tasks : task[t] \in {"done", "failed"}

\* Lines 378-391: every task is done (pool.join()), the parts are combined.
\* With deduplicate false combined_path is counts_path.
Combine ==
    /\ main_pc = "pool"
    /\ PoolJoined
    /\ \A t \in Tasks : task[t] # "failed"
    /\ combined' = CombinedLines(temp, Len(parts), Len(no_parts))
    /\ counts_file' = IF deduplicate THEN counts_file ELSE combined'
    /\ main_pc' = IF deduplicate THEN "deduplicate" ELSE "returned"
    /\ UNCHANGED <<idx, no_idx, n_threads, deduplicate, malformed, parts, no_parts, task, temp>>
    /\ UNCHANGED <<partVars, dedupVars, snpVars, progressVars, extractVars,
                   complementVars, splitVars, countVars>>

\* Lines 378-391 when a task failed: the results are all ready, the file at
\* combined_path is opened and given its header, and the get() of the list
\* with the failed task raises the task's exception out of count_conversions.
CombineRaises ==
    /\ main_pc = "pool"
    /\ PoolJoined
    /\ \E t \in Tasks : task[t] = "failed"
    /\ combined' = CombinedLinesUntilRaise(temp, Len(parts), Len(no_parts),
                        \E t \in Tasks : t[1] = "conversions" /\ task[t] = "failed")
    /\ counts_file' = IF deduplicate THEN counts_file ELSE combined'
    /\ main_pc' = "raised"
    /\ UNCHANGED <<idx, no_idx, n_threads, deduplicate, malformed, parts, no_parts, task, temp>>
    /\ UNCHANGED <<partVars, dedupVars, snpVars, progressVars, extractVars,
                   complementVars, splitVars, countVars>>

\* Lines 393-395: deduplicate_counts(read_counts(combined_path)).to_csv(counts_path).
DeduplicateCombined ==
    /\ main_pc = "deduplicate"
    /\ \E t \in deduplicate_counts(read_counts(combined)) : counts_file' = to_csv(t)
    /\ main_pc' = "returned"
    /\ UNCHANGED <<idx, no_idx, n_threads, deduplicate, malformed, parts, no_parts, task, temp, combined>>
    /\ UNCHANGED <<partVars, dedupVars, snpVars, progressVars, extractVars,
                   complementVars, splitVars, countVars>>

Next ==
    \/ Split
    \/ \E t \in Tasks : StartTask(t)
    \/ \E t \in Tasks : FinishTask(t)
    \/ \E t \in Tasks : FailTask(t)
    \/ Combine
    \/ CombineRaises
    \/ DeduplicateCombined

Spec == Init /\ [][Next]_vars

----------------------------------------------------------------------------
\* The progress counter (utils.make_pool_with_counter gives the pool, the
\* counter and its lock; the workers add to counter.value under the lock).

Workers == {"w1", "w2"}

\* The functions a pool runs.
WorkerFunctions == {"count_conversions_part", "count_no_conversions_part",
                    "extract_conversions_part"}

\* The units a worker counts: the lines it reads, or for
\* extract_conversions_part the index entries it visits.
CountsEntries(function) == function = "extract_conversions_part"

\* A lock that never blocks.
AcquireNeverBlocks(holder) == TRUE

\* lock.acquire() returns when nobody holds the lock.
AcquireReturns(holder) == holder = None

\* Whether the iteration that makes `done` units complete ends a batch:
\* (i + 1) % update_every == 0 for the two counting functions,
\* n == update_every (n incremented first, reset after a batch) for extraction.
BatchComplete(function, done, n, every) ==
    IF CountsEntries(function) THEN n = every ELSE done % every = 0

\* A whole batch added after the loop.
RemainderWholeBatch(function, units, n, every) == every

\* What the worker adds after its loop: n_lines % update_every, or n.
Remainder(function, units, n, every) ==
    IF CountsEntries(function) THEN n ELSE units % every

InitProgress ==
    /\ \E every \in 1..UpdateEvery :
          proc \in [Workers -> [function : WorkerFunctions, units : 0..MaxLines,
                                update_every : {every}, done : {0}, completed : {0},
                                n : {0},
                                amount : {0}, value : {0}, added : {0},
                                final : {FALSE}, pc : {"loop"}]]
    /\ counter_value = 0
    /\ lock = None
    /\ PartIdle
    /\ DedupIdle
    /\ SnpIdle
    /\ MainIdle
    /\ ExtractIdle
    /\ ComplementIdle
    /\ SplitIdle
    /\ CountIdle

\* One iteration of the worker's loop; at the end of a batch the worker
\* goes on to lock.acquire(). The two counting functions have read, parsed
\* and written the record by then (conversion.py 267-287, 195-201);
\* extract_conversions_part has only counted the entry in n and reads its
\* lines after the release (snp.py 109-117).
Iterate(w) ==
    LET p == proc[w]
        n == IF CountsEntries(p.function) THEN p.n + 1 ELSE p.n
        batch == BatchComplete(p.function, p.done + 1, n, p.update_every)
        completed == IF CountsEntries(p.function) /\ batch THEN p.completed
                     ELSE p.completed + 1
    IN  /\ p.pc = "loop"
        /\ p.done < p.units
        /\ proc' = [proc EXCEPT ![w] =
                IF batch
                THEN [p EXCEPT !.done = p.done + 1, !.completed = completed, !.n = n,
                               !.amount = p.update_every, !.pc = "acquire"]
                ELSE [p EXCEPT !.done = p.done + 1, !.completed = completed, !.n = n]]
        /\ UNCHANGED <<counter_value, lock>>
        /\ UNCHANGED <<partVars, dedupVars, snpVars, mainVars, extractVars, complementVars, splitVars, countVars>>

\* The loop is over: the worker goes on to add the remainder.
LeaveLoop(w) ==
    LET p == proc[w]
    IN  /\ p.pc = "loop"
        /\ p.done = p.units
        /\ proc' = [proc EXCEPT ![w] =
                [p EXCEPT !.amount = Remainder(p.function, p.units, p.n, p.update_every),
                          !.final = TRUE, !.pc = "acquire"]]
        /\ UNCHANGED <<counter_value, lock>>
        /\ UNCHANGED <<partVars, dedupVars, snpVars, mainVars, extractVars, complementVars, splitVars, countVars>>

\* lock.acquire() and the read of counter.value that += begins with.
Acquire(w) ==
    /\ proc[w].pc = "acquire"
    /\ AcquireReturns(lock)
    /\ lock' = w
    /\ proc' = [proc EXCEPT ![w] = [@ EXCEPT !.value = counter_value, !.pc = "add"]]
    /\ UNCHANGED counter_value
    /\ UNCHANGED <<partVars, dedupVars, snpVars, mainVars, extractVars, complementVars, splitVars, countVars>>

\* A release that leaves the lock with the worker.
NotReleased(w) == w

\* The holder of the lock after lock.release().
Released(w) == None

\* The write of counter.value that += ends with, and lock.release();
\* extraction resets n after a batch.
AddAndRelease(w) ==
    LET p == proc[w]
    IN  /\ p.pc = "add"
        /\ counter_value' = p.value + p.amount
        /\ lock' = Released(w)
        /\ proc' = [proc EXCEPT ![w] =
                [p EXCEPT !.added = p.added + p.amount,
                          !.n = IF p.final THEN p.n ELSE 0,
                          !.pc = IF p.final THEN "done"
                                 ELSE IF CountsEntries(p.function) THEN "lines"
                                 ELSE "loop"]]
        /\ UNCHANGED <<partVars, dedupVars, snpVars, mainVars, extractVars, complementVars, splitVars, countVars>>

\* snp.py 116-129: extract_conversions_part reads the lines of the entry it
\* counted before the batch was added.
ReadEntryLines(w) ==
    /\ proc[w].pc = "lines"
    /\ proc' = [proc EXCEPT ![w] = [@ EXCEPT !.completed = @ + 1, !.pc = "loop"]]
    /\ UNCHANGED <<counter_value, lock>>
    /\ UNCHANGED <<partVars, dedupVars, snpVars, mainVars, extractVars, complementVars, splitVars, countVars>>

NextProgress ==
    \/ \E w \in Workers : Iterate(w)
    \/ \E w \in Workers : ReadEntryLines(w)
    \/ \E w \in Workers : LeaveLoop(w)
    \/ \E w \in Workers : Acquire(w)
    \/ \E w \in Workers : AddAndRelease(w)

SpecProgress == InitProgress /\ [][NextProgress]_vars

----------------------------------------------------------------------------
\* complement_counts.

\* CONVERSION_COLUMNS, BASE_COLUMNS and COLUMNS (lines 71-73): the sorted
\* keys, which is the order of CONVERSION_IDX and BASE_IDX.
CONVERSION_COLUMNS ==
    <<"AC", "AG", "AT", "CA", "CG", "CT", "GA", "GC", "GT", "TA", "TC", "TG">>
BASE_COLUMNS == <<"A", "C", "G", "T">>
COLUMNS == CONVERSION_COLUMNS \o BASE_COLUMNS

\* A list left in its order.
NotReversed(s) == s

\* A list rotated by one place.
RotatedLeft(s) == Tail(s) \o <<Head(s)>>

\* s[::-1]
Reverse(s) == [k \in 1..Len(s) |-> s[Len(s) + 1 - k]]

Strands == {"+", "-"}
Genes == {"g1", "g2"}

\* The count columns of the rows of the argument: all different, or an
\* observed G>A with few bases.
ComplementCounts ==
    {[k \in 1..NColumns |-> k],
     [k \in 1..NColumns |-> IF k = CONVERSION_IDX(<<"G", "A">>) + 1 THEN 2
                             ELSE IF k = BASE_IDX("A") + 1 THEN 7 ELSE 0]}

ComplementRows ==
    {[barcode |-> "b1", umi |-> "u1", GX |-> g, counts |-> c,
      velocity |-> "spliced", transcriptome |-> TRUE] : g \in Genes, c \in ComplementCounts}

\* df[columns] of a row: umi is not among the columns; the row keeps its
\* index label.
SelectColumns(row, label) ==
    [index |-> label, barcode |-> row.barcode, GX |-> row.GX, velocity |-> row.velocity,
     transcriptome |-> row.transcriptome, counts |-> row.counts]

\* Lines 104-105 for one row: the count columns are named anew, in their
\* order, by `names`, and then selected in the order of COLUMNS.
RenameAndSelect(row, names) ==
    [row EXCEPT !.counts =
        [j \in 1..NColumns |->
            row.counts[CHOOSE k \in 1..NColumns : names[k] = COLUMNS[j]]]]

\* The rows of table t whose gene has the given strand, in order, with
\* their index labels (from 0).
RECURSIVE OfStrand(_, _, _, _)
OfStrand(t, infos, strand, k) ==
    IF k > Len(t) THEN <<>>
    ELSE (IF infos[t[k].GX] = strand THEN <<SelectColumns(t[k], k - 1)>> ELSE <<>>)
             \o OfStrand(t, infos, strand, k + 1)

\* complement_counts(df_counts, gene_infos): pd.concat((df_forward,
\* df_reverse)).reset_index(), which keeps the old labels in column index.
complement_counts(t, infos) ==
    LET df_forward == OfStrand(t, infos, "+", 1)
        df_reverse == OfStrand(t, infos, "-", 1)
        names      == Reverse(CONVERSION_COLUMNS) \o Reverse(BASE_COLUMNS)
    IN  df_forward \o [k \in 1..Len(df_reverse) |-> RenameAndSelect(df_reverse[k], names)]

InitComplement ==
    /\ cc_counts \in UNION {[1..n -> ComplementRows] : n \in 0..MaxRows}
    /\ gene_infos \in [Genes -> Strands]
    /\ cc_result = <<>>
    /\ cc_pc = "call"
    /\ PartIdle
    /\ DedupIdle
    /\ SnpIdle
    /\ MainIdle
    /\ ProgressIdle
    /\ ExtractIdle
    /\ SplitIdle
    /\ CountIdle

Complement ==
    /\ cc_pc = "call"
    /\ cc_result' = complement_counts(cc_counts, gene_infos)
    /\ cc_pc' = "returned"
    /\ UNCHANGED <<cc_counts, gene_infos>>
    /\ UNCHANGED <<partVars, dedupVars, snpVars, mainVars, progressVars, extractVars,
                   splitVars, countVars>>

NextComplement == Complement

SpecComplement == InitComplement /\ [][NextComplement]_vars

----------------------------------------------------------------------------
\* extract_conversions.

\* The quality argument's default.
ExtractQuality == 27

\* groupdict() of a line of the conversions file as extraction reads it: the
\* record of the counting grammar with the alignment index of the read in
\* group `index` (only the groups extraction looks at are kept).
ExtractRecord(r, a, pair, g, q) ==
    [read_id |-> r, index |-> a, contig |-> "chr1", genome_i |-> g,
     original |-> pair[1], converted |-> pair[2], quality |-> q]

\* The lines of index entry k when it has n lines. One line: a read with one
\* A>C. Two lines: a read with an A>C and a T>C of quality 27. Three lines: two
\* alignments of a read, the first with a T>C, the second with an A>C and a T>C.
ExtractEntryLines(k, n) ==
    LET r == ReadNames[k]
    IN  CASE n = 1 -> <<ExtractRecord(r, 0, <<"A", "C">>, 5, 30)>>
          [] n = 2 -> <<ExtractRecord(r, 0, <<"A", "C">>, 5, 30),
                        ExtractRecord(r, 0, <<"T", "C">>, 7, 27)>>
          [] OTHER -> <<ExtractRecord(r, 0, <<"T", "C">>, 7, 30),
                        ExtractRecord(r, 1, <<"A", "C">>, 5, 30),
                        ExtractRecord(r, 1, <<"T", "C">>, 7, 30)>>

ExtractEntrySizes == {1, 2, 3}

\* The index read from index_path: (pos, n_lines, _) per entry, the entry's
\* number kept in the third place.
RECURSIVE ExtractIndexFrom(_, _, _)
ExtractIndexFrom(sizes, k, pos) ==
    IF k > Len(sizes) THEN <<>>
    ELSE <<[pos |-> pos, n_lines |-> sizes[k], entry |-> k]>>
             \o ExtractIndexFrom(sizes, k + 1, pos + sizes[k])

ExtractIndexes ==
    {ExtractIndexFrom(sizes, 1, 0) :
        sizes \in UNION {[1..n -> ExtractEntrySizes] : n \in 0..MaxGroups}}

\* The alignments argument: None, or a set of (read_id, alignment index) keys.
NoAlignments == [none |-> TRUE, keys |-> {}]
AlignmentSets ==
    {NoAlignments,
     [none |-> FALSE, keys |-> {}],
     [none |-> FALSE, keys |-> {<<"r1", 0>>}],
     [none |-> FALSE, keys |-> {<<"r1", 1>>, <<"r2", 0>>}]}

\* The conversions argument: None, or a list of conversion types.
NoConversionTypes == [none |-> TRUE, types |-> {}]
ConversionTypeLists == {NoConversionTypes, [none |-> FALSE, types |-> {"TC"}]}

\* utils.split_index(index, n): the contiguous groups of whole entries, in
\* order, N of them (fewer when there are fewer entries), none empty, as
\* balanced in lines as possible; every group is the list of its entries.
RECURSIVE EntryGroups(_, _, _, _)
EntryGroups(index, cuts, k, group) ==
    IF k > Len(index) THEN <<>>
    ELSE IF k \in cuts \/ k = Len(index)
         THEN <<Append(group, index[k])>> \o EntryGroups(index, cuts, k + 1, <<>>)
         ELSE EntryGroups(index, cuts, k + 1, Append(group, index[k]))

GroupLines(group) ==
    LET RECURSIVE Total(_)
        Total(k) == IF k > Len(group) THEN 0 ELSE group[k].n_lines + Total(k + 1)
    IN  Total(1)

LargestGroup(gs) == CHOOSE x \in {GroupLines(gs[j]) : j \in 1..Len(gs)} :
                        \A j \in 1..Len(gs) : GroupLines(gs[j]) <= x

EntryGroupings(index, n) ==
    {EntryGroups(index, cuts, 1, <<>>) :
        cuts \in {c \in SUBSET (1..(Len(index) - 1)) : Cardinality(c) + 1 = Min(n, Len(index))}}

utils_split_index(index, n) ==
    IF index = <<>> THEN {<<>>}
    ELSE {gs \in EntryGroupings(index, n) :
            \A hs \in EntryGroupings(index, n) : LargestGroup(gs) <= LargestGroup(hs)}

\* `alignments` as a condition: a set is true when it is not empty, None is false.
Truthy(al) == ~al.none /\ al.keys # {}

\* The test of line 122 with >= in place of >.
ExtractQualifiesAtThreshold(q, minq) == q >= minq

\* int(groups['quality']) > quality (line 122).
ExtractQualifies(q, minq) == q > minq

\* Lines 122-129: the record's conversion, contig and position counted.
TallyRecord(cv, g) ==
    LET key == <<ConversionName(<<g.original, g.converted>>), g.contig, g.genome_i>>
    IN  IF ExtractQualifies(g.quality, ExtractQuality)
        THEN [x \in DOMAIN cv \cup {key} |-> IF x = key THEN GetOr(cv, key, 0) + 1 ELSE cv[x]]
        ELSE cv

\* The inner loop of lines 116-129 over the lines of one entry, from line k:
\* it breaks at the first record whose key is not among truthy alignments.
RECURSIVE ExtractLines(_, _, _, _)
ExtractLines(cv, lines, k, al) ==
    IF k > Len(lines) THEN cv
    ELSE IF Truthy(al) /\ <<lines[k].read_id, lines[k].index>> \notin al.keys THEN cv
         ELSE ExtractLines(TallyRecord(cv, lines[k]), lines, k + 1, al)

\* extract_conversions_part: the outer loop over the entries of the part.
RECURSIVE extract_conversions_part(_, _, _, _)
extract_conversions_part(cv, part, j, al) ==
    IF j > Len(part) THEN cv
    ELSE extract_conversions_part(
             ExtractLines(cv, ExtractEntryLines(part[j].entry, part[j].n_lines), 1, al),
             part, j + 1, al)

\* utils.merge_dictionaries(d1, d2) with its default f: the sum, at every
\* path of either dictionary, of the values there.
merge_sum(d1, d2) ==
    [k \in DOMAIN d1 \cup DOMAIN d2 |-> GetOr(d1, k, 0) + GetOr(d2, k, 0)]

\* Lines 184-187: the parts' tallies merged one after the other.
RECURSIVE CombineTallies(_, _, _)
CombineTallies(cv, results, j) ==
    IF j > Len(results) THEN cv
    ELSE CombineTallies(merge_sum(cv, results[j]), results, j + 1)

InitExtract ==
    /\ ex_index \in ExtractIndexes
    /\ ex_alignments \in AlignmentSets
    /\ ex_conversions \in ConversionTypeLists
    /\ ex_n_threads \in 1..MaxThreads
    /\ ex_parts = <<>> /\ ex_task = <<>> /\ ex_result = <<>> /\ ex_convs = <<>>
    /\ ex_pc = "split"
    /\ PartIdle
    /\ DedupIdle
    /\ SnpIdle
    /\ MainIdle
    /\ ProgressIdle
    /\ ComplementIdle
    /\ SplitIdle
    /\ CountIdle

\* Lines 160-177: the index is split and one task per part is queued.
ExtractSplit ==
    /\ ex_pc = "split"
    /\ ex_parts' \in utils_split_index(ex_index, ex_n_threads)
    /\ ex_task' = [j \in 1..Len(ex_parts') |-> "queued"]
    /\ ex_result' = [j \in 1..Len(ex_parts') |-> <<>>]
    /\ ex_pc' = "pool"
    /\ UNCHANGED <<ex_index, ex_alignments, ex_conversions, ex_n_threads, ex_convs>>
    /\ UNCHANGED <<partVars, dedupVars, snpVars, mainVars, progressVars, complementVars, splitVars, countVars>>

\* A process of the pool runs extract_conversions_part on a part; the
\* conversions argument is not among the arguments it is given.
ExtractPart(j) ==
    /\ ex_pc = "pool"
    /\ ex_task[j] = "queued"
    /\ ex_result' = [ex_result EXCEPT ![j] =
                        extract_conversions_part(<<>>, ex_parts[j], 1, ex_alignments)]
    /\ ex_task' = [ex_task EXCEPT ![j] = "done"]
    /\ UNCHANGED <<ex_index, ex_alignments, ex_conversions, ex_n_threads, ex_parts,
                   ex_convs, ex_pc>>
    /\ UNCHANGED <<partVars, dedupVars, snpVars, mainVars, progressVars, complementVars, splitVars, countVars>>

\* Lines 180-189: every task is done; the tallies are merged and returned.
ExtractCombine ==
    /\ ex_pc = "pool"
    /\ \A j \in 1..Len(ex_parts) : ex_task[j] = "done"
    /\ ex_convs' = CombineTallies(<<>>, ex_result, 1)
    /\ ex_pc' = "returned"
    /\ UNCHANGED <<ex_index, ex_alignments, ex_conversions, ex_n_threads, ex_parts,
                   ex_task, ex_result>>
    /\ UNCHANGED <<partVars, dedupVars, snpVars, mainVars, progressVars, complementVars, splitVars, countVars>>

NextExtract ==
    \/ ExtractSplit
    \/ \E j \in 1..Len(ex_parts) : ExtractPart(j)
    \/ ExtractCombine

SpecExtract == InitExtract /\ [][NextExtract]_vars

----------------------------------------------------------------------------
\* estimation.pi.split_matrix, as its test calls it. A fraction is held as a
\* number of quarters: pi 0.25 is 1, pi 0.5 is 2, and the cells of the two
\* matrices returned are in quarters too (0.5 is 2, 3 is 12).

SplitBarcodes == {"bc1", "bc2"}
SplitFeatures == {"gx1", "gx2"}
SplitCells == SplitBarcodes \X SplitFeatures
SplitValues == {1, 2, 4, 5}
SplitPis == {1, 2}

\* split_matrix with the two matrices in each other's place.
split_matrix_labeled_first(matrix, pis, barcodes, features) ==
    [pi_mask |-> [c \in barcodes \X features |-> c \in DOMAIN pis],
     unlabeled_matrix |->
        [c \in barcodes \X features |-> IF c \in DOMAIN pis THEN matrix[c] * pis[c] ELSE 0],
     labeled_matrix |->
        [c \in barcodes \X features |->
            IF c \in DOMAIN pis THEN matrix[c] * (4 - pis[c]) ELSE 0]]

\* split_matrix(matrix, pis, barcodes, features): (pi_mask, unlabeled_matrix,
\* labeled_matrix), the mask set where pis has an entry, the value of a masked
\* cell split by its pi.
split_matrix(matrix, pis, barcodes, features) ==
    [pi_mask |-> [c \in barcodes \X features |-> c \in DOMAIN pis],
     unlabeled_matrix |->
        [c \in barcodes \X features |->
            IF c \in DOMAIN pis THEN matrix[c] * (4 - pis[c]) ELSE 0],
     labeled_matrix |->
        [c \in barcodes \X features |-> IF c \in DOMAIN pis THEN matrix[c] * pis[c] ELSE 0]]

InitSplit ==
    /\ sm_matrix \in [SplitCells -> SplitValues]
    /\ sm_pis \in Dicts(SplitCells, SplitPis)
    /\ sm_result = <<>>
    /\ sm_pc = "call"
    /\ PartIdle
    /\ DedupIdle
    /\ SnpIdle
    /\ MainIdle
    /\ ProgressIdle
    /\ ExtractIdle
    /\ ComplementIdle
    /\ CountIdle

\* pi_mask, unlabeled_matrix, labeled_matrix = pi.split_matrix(...)
SplitMatrix ==
    /\ sm_pc = "call"
    /\ sm_result' = split_matrix(sm_matrix, sm_pis, SplitBarcodes, SplitFeatures)
    /\ sm_pc' = "returned"
    /\ UNCHANGED <<sm_matrix, sm_pis>>
    /\ UNCHANGED <<partVars, dedupVars, snpVars, mainVars, progressVars, extractVars,
                   complementVars, countVars>>

NextSplit == SplitMatrix

SpecSplit == InitSplit /\ [][NextSplit]_vars

-----------------------------------------------------------------------------
\* count(): every stage of the pipeline is guarded by
\*     if not <the stage's outputs all exist> or redo(<key>):
\* and redo(key) looks the key up in config.RE_CHOICES.

RE_CHOICES == <<"index", "parse", "snp", "count", "aggregate", "p", "pi", "split">>

\* The guarded stages of count() in the order of the code, each with the key
\* its condition hands to redo: STAR alignment, samtools index, parse, snp,
\* count, aggregate, estimate_rates, estimate_fraction.
StageKeys ==
    <<"align", "align", "parse", "snp", "count", "aggregate", "estimate_rates",
      "estimate_fraction">>



\* list.index(key): the position of the first occurrence (counted from one
\* here), and a ValueError when the key does not occur.
IndexRaises(list, key) == \A k \in 1..Len(list) : list[k] # key

Index(list, key) ==
    CHOOSE k \in 1..Len(list) : list[k] = key /\ \A j \in 1..(k - 1) : list[j] # key

\* redo(key): re in RE_CHOICES[:RE_CHOICES.index(key) + 1].
redoRaises(key) == IndexRaises(RE_CHOICES, key)

redo(key) == re \in {RE_CHOICES[k] : k \in 1..Index(RE_CHOICES, key)}

InitCount ==
    /\ re \in {None} \cup {RE_CHOICES[k] : k \in 1..Len(RE_CHOICES)}
    /\ exists \in [1..Len(StageKeys) -> BOOLEAN]
    /\ stage = 1
    /\ decision = <<>>
    /\ count_pc = "run"
    /\ PartIdle
    /\ DedupIdle
    /\ SnpIdle
    /\ MainIdle
    /\ ProgressIdle
    /\ ExtractIdle
    /\ ComplementIdle
    /\ SplitIdle

\* The condition is true: the outputs are missing (redo is not evaluated), or
\* they exist and redo(key) is true. The stage runs and writes its outputs.
RunStage ==
    /\ count_pc = "run"
    /\ stage <= Len(StageKeys)
    /\ \/ ~exists[stage]
       \/ exists[stage] /\ ~redoRaises(StageKeys[stage]) /\ redo(StageKeys[stage])
    /\ decision' = Append(decision, IF exists[stage] THEN "redo" ELSE "missing")
    /\ exists' = [exists EXCEPT ![stage] = TRUE]
    /\ stage' = stage + 1
    /\ UNCHANGED <<re, count_pc>>
    /\ UNCHANGED <<partVars, dedupVars, snpVars, mainVars, progressVars, extractVars,
                   complementVars, splitVars>>

\* The outputs exist and redo(key) is false: the stage is skipped.
SkipStage ==
    /\ count_pc = "run"
    /\ stage <= Len(StageKeys)
    /\ exists[stage]
    /\ ~redoRaises(StageKeys[stage])
    /\ ~redo(StageKeys[stage])
    /\ decision' = Append(decision, "skip")
    /\ stage' = stage + 1
    /\ UNCHANGED <<re, exists, count_pc>>
    /\ UNCHANGED <<partVars, dedupVars, snpVars, mainVars, progressVars, extractVars,
                   complementVars, splitVars>>

\* The outputs exist, redo(key) is evaluated and RE_CHOICES.index(key) raises
\* ValueError, which count() does not catch.
RedoValueError ==
    /\ count_pc = "run"
    /\ stage <= Len(StageKeys)
    /\ exists[stage]
    /\ redoRaises(StageKeys[stage])
    /\ count_pc' = "raised"
    /\ UNCHANGED <<re, exists, stage, decision>>
    /\ UNCHANGED <<partVars, dedupVars, snpVars, mainVars, progressVars, extractVars,
                   complementVars, splitVars>>

\* Every guarded stage has been decided: count() goes on to the split, which
\* has no guard, and returns.
CountReturn ==
    /\ count_pc = "run"
    /\ stage = Len(StageKeys) + 1
    /\ count_pc' = "returned"
    /\ UNCHANGED <<re, exists, stage, decision>>
    /\ UNCHANGED <<partVars, dedupVars, snpVars, mainVars, progressVars, extractVars,
                   complementVars, splitVars>>

NextCount == RunStage \/ SkipStage \/ RedoValueError \/ CountReturn

SpecCount == InitCount /\ [][NextCount]_vars

----------------------------------------------------------------------------
\* Read groups of the scanned lines: the maximal runs of consecutive records
\* with the same read_id.

RunStarts(s) == {k \in 1..Len(s) : k = 1 \/ s[k].read_id # s[k - 1].read_id}
NRuns(s) == Cardinality(RunStarts(s))
RunStart(s, j) == CHOOSE k \in RunStarts(s) : Cardinality({m \in RunStarts(s) : m <= k}) = j
RunEnd(s, j) == IF j = NRuns(s) THEN Len(s) ELSE RunStart(s, j + 1) - 1
Run(s, j) == RunStart(s, j)..RunEnd(s, j)

\* The count a row holds for a conversion type.
RowCount(row, pair) == At(row.counts, CONVERSION_IDX(pair))

\* Records of run j with the given conversion type and quality above the threshold.
Qualifying(s, j, pair, minq) ==
    {k \in Run(s, j) : /\ <<s[k].original, s[k].converted>> = pair
                       /\ s[k].quality > minq}

\* Whether the SNP table flags the record's position for the record's own type.
Flagged(s, g) ==
    /\ ~s.none
    /\ <<ConversionName(<<g.original, g.converted>>), g.contig, g.genome_i>> \in s.table

\* C1: with no SNP table, every emitted row's count of each conversion type is
\* the number of records of its read group with that (original, converted) and
\* quality strictly above the threshold (so a record at the threshold is not
\* counted and a type with no such record has count 0).
C1_CountsQualityAboveThreshold ==
    snps.none =>
        \A j \in 1..Len(out) : \A pair \in ConversionPairs :
            RowCount(out[j], pair) = Cardinality(Qualifying(scanned, j, pair, quality))

\* C1 witness: the worker finished a read of three records (A>C above the
\* threshold, A>C at the threshold, G>T above it) and wrote AC = 1, GT = 1.
C1_Witness ==
    /\ pc = "done" /\ snps.none /\ Len(scanned) = 3 /\ Len(out) = 1
    /\ \A k \in 1..3 : scanned[k].read_id = "r1"
    /\ <<scanned[1].original, scanned[1].converted>> = <<"A", "C">>
    /\ scanned[1].quality > quality
    /\ <<scanned[2].original, scanned[2].converted>> = <<"A", "C">>
    /\ scanned[2].quality = quality
    /\ <<scanned[3].original, scanned[3].converted>> = <<"G", "T">>
    /\ scanned[3].quality > quality
    /\ RowCount(out[1], <<"A", "C">>) = 1
    /\ RowCount(out[1], <<"G", "T">>) = 1

\* C2 (as claimed): a record whose (contig, genome_i) the SNP table flags for
\* the record's own conversion type is not counted: a row's count of a type is
\* at most the number of qualifying records of its read group that are not
\* flagged.
C2_FlaggedNotCounted ==
    \A j \in 1..Len(out) : \A pair \in ConversionPairs :
        RowCount(out[j], pair) <=
            Cardinality({k \in Qualifying(scanned, j, pair, quality) : ~Flagged(snps, scanned[k])})

\* C3: the rows written are one per read group: while the loop runs every
\* group but the one accumulating has its row, after the end of input every
\* group has; row j is the row of group j; an empty partition writes no row.
C3_OneRowPerReadGroup ==
    /\ Len(out) = IF pc = "done" THEN NRuns(scanned)
                  ELSE IF scanned = <<>> THEN 0 ELSE NRuns(scanned) - 1
    /\ \A j \in 1..Len(out) :
          LET g == scanned[RunStart(scanned, j)]
          IN  /\ out[j].barcode = g.barcode
              /\ out[j].umi = g.umi
              /\ out[j].GX = g.GX
    /\ (pc = "done" /\ n_lines = 0) => out = <<>>

\* C3 witness: a finished partition r1, r2, r1 (three groups) with three rows.
C3_Witness ==
    /\ pc = "done" /\ Len(scanned) = 3 /\ Len(out) = 3
    /\ scanned[1].read_id = "r1" /\ scanned[2].read_id = "r2" /\ scanned[3].read_id = "r1"

----------------------------------------------------------------------------
\* Properties of deduplicate_counts.

Range(t) == {t[k] : k \in 1..Len(t)}

\* The (barcode, umi, gene) key of a row.
KeyOf(row) == <<row.barcode, row.umi, row.GX>>

\* The rows of the input with the key of `row`.
KeyGroup(t, row) == {x \in Range(t) : KeyOf(x) = KeyOf(row)}

\* C4: the table returned has exactly one row for every (barcode, umi, GX) key
\* of the input, no key twice, and every row of it is a row of the input,
\* count values included.
C4_OneRowPerKey ==
    dedup_pc = "returned" =>
        /\ {KeyOf(x) : x \in Range(df_deduplicated)} = {KeyOf(x) : x \in Range(df_counts)}
        /\ \A p, q \in 1..Len(df_deduplicated) :
              KeyOf(df_deduplicated[p]) = KeyOf(df_deduplicated[q]) => p = q
        /\ Range(df_deduplicated) \subseteq Range(df_counts)

\* C4 witness: a table of three rows, two of them sharing a key and differing
\* in their counts, was deduplicated to two rows.
C4_Witness ==
    /\ dedup_pc = "returned" /\ Len(df_counts) = 3 /\ Len(df_deduplicated) = 2
    /\ \E p, q \in 1..3 : /\ p # q
                          /\ KeyOf(df_counts[p]) = KeyOf(df_counts[q])
                          /\ df_counts[p].counts # df_counts[q].counts

----------------------------------------------------------------------------
\* Properties of detect_snps.

\* The (contig, genome_i, original, converted) rows that qualify: a nonzero
\* extracted count, coverage >= min_coverage, count / coverage > threshold.
QualifyingSnps ==
    {SnpRow(<<k[2], k[3]>>, k[1]) : k \in
        {x \in DOMAIN convs :
            /\ convs[x] > 0
            /\ <<x[2], x[3]>> \in DOMAIN coverage
            /\ coverage[<<x[2], x[3]>>] >= min_coverage
            /\ convs[x] * threshold[2] > threshold[1] * coverage[<<x[2], x[3]>>]}}

NoRowTwice(rows) == \A p, q \in 1..Len(rows) : rows[p] = rows[q] => p = q

\* C6 (as claimed): when detect_snps has ended, the rows it emitted are
\* exactly the qualifying ones, each once.
C6_EmitsExactlyQualifying ==
    snp_pc \in {"returned", "raised"} =>
        Range(snp_rows) = QualifyingSnps /\ NoRowTwice(snp_rows)

\* What holds of the code for C6: no row is ever emitted that does not
\* qualify, none twice, and a run that returns has emitted every qualifying row.
C6_HoldsWhenReturned ==
    /\ Range(snp_rows) \subseteq QualifyingSnps
    /\ NoRowTwice(snp_rows)
    /\ snp_pc = "returned" => Range(snp_rows) = QualifyingSnps

\* Positions with an extracted count and no entry in the coverage table.
MissingCoverage == {k \in DOMAIN convs : <<k[2], k[3]>> \notin DOMAIN coverage}

\* C7 (as claimed): a position with a nonzero extracted count and no coverage
\* entry is never emitted and raises no lookup or division error.
C7_MissingCoverageIsZeroCoverage ==
    MissingCoverage # {} =>
        /\ snp_pc # "raised"
        /\ \A k \in MissingCoverage : SnpRow(<<k[2], k[3]>>, k[1]) \notin Range(snp_rows)

----------------------------------------------------------------------------
\* Properties of count_conversions.

RECURSIVE SumLines(_, _, _)
SumLines(ps, a, b) == IF a > b THEN 0 ELSE ps[a].n_lines + SumLines(ps, a + 1, b)

\* The entry of the conversions index that starts at pos (0 when there is none).
EntryAt(pos) ==
    IF \E k \in 1..Len(idx) : idx[k].pos = pos
    THEN CHOOSE k \in 1..Len(idx) : idx[k].pos = pos
    ELSE 0

\* The entry after the last entry of part j.
EntryAfter(j) == IF j = Len(parts) THEN Len(idx) + 1 ELSE EntryAt(parts[j + 1].pos)

Splitted == main_pc # "split"

\* C8: once the indexes are split, the record counts of the no-conversion
\* parts sum to the length of the no-conversion index and every part starts at
\* the index entry that follows the records of the parts before it; the record
\* counts of the conversion parts sum to the total of the conversion index,
\* the first part starts at the first entry, every part starts at an entry
\* later than the one before and holds exactly the records of the entries up
\* to the start of the next part.  No record is missing and none is in two parts.
C8_PartitionComplete ==
    Splitted =>
        /\ SumLines(no_parts, 1, Len(no_parts)) = Len(no_idx)
        /\ \A j \in 1..Len(no_parts) :
               /\ no_parts[j].n_lines >= 1
               /\ SumLines(no_parts, 1, j - 1) < Len(no_idx)
               /\ no_parts[j].pos = At(no_idx, SumLines(no_parts, 1, j - 1))
        /\ SumLines(parts, 1, Len(parts)) = SumLines(idx, 1, Len(idx))
        /\ (idx = <<>>) = (parts = <<>>)
        /\ \A j \in 1..Len(parts) :
               /\ EntryAt(parts[j].pos) >= 1
               /\ j = 1 => EntryAt(parts[j].pos) = 1
               /\ EntryAt(parts[j].pos) < EntryAfter(j)
               /\ parts[j].n_lines = SumLines(idx, EntryAt(parts[j].pos), EntryAfter(j) - 1)

\* C8 witness: three read groups and three no-conversion records split for two
\* workers, the last no-conversion part shorter than the step.
C8_Witness ==
    /\ Splitted /\ n_threads = 2 /\ Len(idx) = 3 /\ Len(no_idx) = 3
    /\ Len(parts) = 2 /\ Len(no_parts) = 2
    /\ no_parts[1].n_lines = 2 /\ no_parts[2].n_lines = 1

\* The conversions file of the run and whether a read group starts after
\* its first k records.
InputFile == ConversionsFile(idx, 1)
GroupBoundary(k) ==
    \/ k = 0
    \/ k = Len(InputFile)
    \/ /\ k > 0 /\ k < Len(InputFile)
       /\ InputFile[k].read_id # InputFile[k + 1].read_id

ConversionTasks == {t \in Tasks : t[1] = "conversions"}

RECURSIVE RowsWritten(_)
RowsWritten(ts) ==
    IF ts = {} THEN 0
    ELSE LET t == CHOOSE u \in ts : TRUE IN Len(temp[t]) + RowsWritten(ts \ {t})

\* C9: every part handed to a count_conversions_part worker starts at the
\* first record of a read group and ends at the last record of one, inside the
\* file; and when the conversion workers are all done their files hold
\* exactly one row per read group of the file.
C9_ReadGroupAtomicity ==
    Splitted =>
        /\ \A t \in ConversionTasks :
               /\ PartOf(t).n_lines >= 1
               /\ PartOf(t).pos + PartOf(t).n_lines <= Len(InputFile)
               /\ GroupBoundary(PartOf(t).pos)
               /\ GroupBoundary(PartOf(t).pos + PartOf(t).n_lines)
        /\ (\A t \in ConversionTasks : task[t] = "done")
               => RowsWritten(ConversionTasks) = Len(idx)

\* C9 witness: read groups of two records each, split for two workers that
\* have both finished.
C9_Witness ==
    /\ Splitted /\ Len(idx) = 3 /\ Len(parts) = 2
    /\ \A k \in 1..Len(idx) : idx[k].n_lines = 2
    /\ \A t \in ConversionTasks : task[t] = "done"

\* How often a line occurs in a file.
Occurrences(lines, x) == Cardinality({k \in 1..Len(lines) : lines[k] = x})

RECURSIVE OccurrencesInTemp(_, _)
OccurrencesInTemp(ts, r) ==
    IF ts = {} THEN 0
    ELSE LET t == CHOOSE u \in ts : TRUE
         IN  Occurrences(temp[t], r) + OccurrencesInTemp(ts \ {t}, r)

TempRows == UNION {{temp[t][k] : k \in 1..Len(temp[t])} : t \in Tasks}

Combined == main_pc \in {"deduplicate", "returned"}

\* C10: the combined table starts with the header, has no other header
\* line, and every row occurs in it as often as in all the temporary files of
\* the conversion and no-conversion workers together, whatever the order the
\* workers finished in; it is the file at counts_path when deduplicate is off.
C10_CombinedIsHeaderAndAllRows ==
    Combined =>
        /\ Len(combined) >= 1
        /\ combined[1] = HeaderLine
        /\ Occurrences(combined, HeaderLine) = 1
        /\ Len(combined) = 1 + RowsWritten(Tasks)
        /\ \A r \in TempRows :
               Occurrences(combined, RowLine(r)) = OccurrencesInTemp(Tasks, r)
        /\ ~deduplicate => counts_file = combined

\* C10 witness: two conversion and two no-conversion temporary files, two of
\* them holding the same row, are combined.
C10_Witness ==
    /\ Combined /\ Len(parts) = 2 /\ Len(no_parts) = 2
    /\ Len(idx) = 3 /\ Len(combined) = 7
    /\ \E r \in TempRows : OccurrencesInTemp(Tasks, r) = 2

----------------------------------------------------------------------------
\* Properties of the progress counter.

RECURSIVE SumOver(_, _)
SumOver(ws, field) ==
    IF ws = {} THEN 0
    ELSE LET w == CHOOSE u \in ws : TRUE
         IN  proc[w][field] + SumOver(ws \ {w}, field)

\* C11: a worker that has finished has added exactly the number of units it
\* was assigned, and once all workers have finished the counter equals the
\* total of the units assigned, whatever the order of their additions.
C11_CounterReachesTotal ==
    /\ \A w \in DOMAIN proc : proc[w].pc = "done" => proc[w].added = proc[w].units
    /\ (\A w \in DOMAIN proc : proc[w].pc = "done")
           => counter_value = SumOver(DOMAIN proc, "units")

\* C11 witness: two workers with three units each and batches of two have
\* both finished, one counting lines and one counting index entries.
C11_Witness ==
    /\ proc # <<>> /\ \A w \in Workers : proc[w].pc = "done"
    /\ proc["w1"].function = "count_conversions_part" /\ proc["w1"].units = 3
    /\ proc["w2"].function = "extract_conversions_part" /\ proc["w2"].units = 3
    /\ proc["w1"].update_every = 2

----------------------------------------------------------------------------
\* Properties of count_conversions when a worker fails.

\* The tasks whose part holds the line the grammar rejects.
HoldsMalformed(t) ==
    /\ malformed.file = t[1]
    /\ malformed.line >= PartOf(t).pos
    /\ malformed.line < PartOf(t).pos + PartOf(t).n_lines

\* C12: when count_conversions ends with the exception of a failed worker
\* nothing has been written at counts_path: the file does not exist.
C12_NothingCommittedOnFailure ==
    main_pc = "raised" => counts_file = <<>>

\* The rows a worker may have written before the rejected line: one per
\* index entry of its part that ends before that line (conversions), one per
\* line before it (no conversions).
RowsBeforeMalformed(t) ==
    IF t[1] = "conversions"
    THEN Cardinality({k \in 1..Len(idx) :
                        /\ idx[k].pos >= PartOf(t).pos
                        /\ idx[k].pos + idx[k].n_lines <= malformed.line})
    ELSE malformed.line - PartOf(t).pos

----------------------------------------------------------------------------
\* Properties of complement_counts.

\* The complementary base.
ComplementBase(b) ==
    CASE b = "A" -> "T" [] b = "T" -> "A" [] b = "C" -> "G" [] b = "G" -> "C"

\* The row of the result that came from row k of the argument.
ResultOf(k) == CHOOSE r \in Range(cc_result) : r.index = k - 1

----------------------------------------------------------------------------
\* Properties of count_no_conversions_part.

NoConversionsTasks == {t \in Tasks : t[1] = "no_conversions"}

\* C15: the file of a finished count_no_conversions_part worker has n_lines
\* rows, and its k-th row is made of the k-th record from pos on: barcode,
\* umi, gene, velocity and transcriptome copied, the 12 conversion counts 0,
\* the counts A, C, G, T those of the record.
C15_OneZeroRowPerRecord ==
    \A t \in NoConversionsTasks :
        (main_pc # "split" /\ task[t] = "done") =>
            /\ Len(temp[t]) = PartOf(t).n_lines
            /\ \A k \in 1..Len(temp[t]) :
                  LET record == NoConversionsRecord(PartOf(t).pos + k - 1)
                      row    == temp[t][k]
                  IN  /\ row.barcode = record.barcode /\ row.umi = record.umi
                      /\ row.GX = record.GX /\ row.velocity = record.velocity
                      /\ row.transcriptome = record.transcriptome
                      /\ \A pair \in ConversionPairs : At(row.counts, CONVERSION_IDX(pair)) = 0
                      /\ At(row.counts, BASE_IDX("A")) = record.A
                      /\ At(row.counts, BASE_IDX("C")) = record.C
                      /\ At(row.counts, BASE_IDX("G")) = record.G
                      /\ At(row.counts, BASE_IDX("T")) = record.T

\* C15 witness: a finished worker that was given two records, the second
\* with an A count other than the first's.
C15_Witness ==
    \E t \in NoConversionsTasks :
        /\ main_pc # "split" /\ task[t] = "done" /\ Len(temp[t]) = 2
        /\ At(temp[t][1].counts, BASE_IDX("A")) # At(temp[t][2].counts, BASE_IDX("A"))

----------------------------------------------------------------------------
\* Properties of extract_conversions.

\* The lines of the whole conversions file.
RECURSIVE ExtractFile(_)
ExtractFile(k) ==
    IF k > Len(ex_index) THEN <<>>
    ELSE ExtractEntryLines(k, ex_index[k].n_lines) \o ExtractFile(k + 1)

TallyKeys == {<<cv, "chr1", g>> : cv \in {"AC", "TC"}, g \in {5, 7}}

\* The lines of the file that count for a tally key: of its conversion type
\* and position, with quality above 27.
LinesFor(key) ==
    {k \in 1..Len(ExtractFile(1)) :
        LET g == ExtractFile(1)[k]
        IN  /\ <<g.original, g.converted>> = (IF key[1] = "AC" THEN <<"A", "C">> ELSE <<"T", "C">>)
            /\ g.contig = key[2] /\ g.genome_i = key[3]
            /\ g.quality > 27}

\* Those of them that belong to an alignment of the alignments argument.
SelectedLinesFor(key) ==
    {k \in LinesFor(key) :
        <<ExtractFile(1)[k].read_id, ExtractFile(1)[k].index>> \in ex_alignments.keys}

C16_HoldsForNonEmptySet ==
    (ex_pc = "returned" /\ ex_alignments.keys # {}) =>
        \A key \in TallyKeys : GetOr(ex_convs, key, 0) <= Cardinality(SelectedLinesFor(key))

----------------------------------------------------------------------------
\* Properties of the number and the sizes of the parts.

\* C19: an index of at least n_threads entries is split into exactly
\* n_threads parts, and the parts of the no-conversions index, whose entries
\* are single records, differ in size by at most one.
C19_ExactlyNBalancedParts ==
    Splitted =>
        /\ Len(idx) >= n_threads => Len(parts) = n_threads
        /\ Len(no_idx) >= n_threads =>
              /\ Len(no_parts) = n_threads
              /\ \A j, k \in 1..Len(no_parts) : no_parts[j].n_lines - no_parts[k].n_lines <= 1

\* C20: no part is empty, there are never more parts than n_threads, an
\* index of fewer entries than n_threads gives fewer parts than n_threads and
\* an empty index gives none.
C20_NoEmptyPartAtMostN ==
    Splitted =>
        /\ \A j \in 1..Len(no_parts) : no_parts[j].n_lines >= 1
        /\ \A j \in 1..Len(parts) : parts[j].n_lines >= 1
        /\ Len(no_parts) <= n_threads /\ Len(parts) <= n_threads
        /\ Len(no_idx) < n_threads => Len(no_parts) < n_threads
        /\ Len(idx) < n_threads => Len(parts) < n_threads
        /\ no_idx = <<>> => no_parts = <<>>
        /\ idx = <<>> => parts = <<>>

\* C20 witness: one no-conversion record and no read group split for two
\* workers: a single no part, no part of the conversions index.
C20_Witness ==
    /\ Splitted /\ n_threads = 2 /\ Len(no_idx) = 1 /\ Len(no_parts) = 1
    /\ idx = <<>> /\ parts = <<>>

\* C21: the combined table is opened and written only after every conversions
\* task and every no-conversions task has ended, so each temporary file the
\* merge copies is in its final state.
C21_MergeAfterEveryWorker ==
    (main_pc \in {"deduplicate", "returned", "raised"} \/ combined # <<>>) =>
        \A t \in Tasks : task[t] \notin {"queued", "running"} /\ temp[t] = TaskOutput(t)

C21_Witness ==
    /\ main_pc = "returned"
    /\ Len(parts) = 2 /\ Len(no_parts) = 2
    /\ Len(combined) > 1

\* The base-content part of a counts list and of a record.
BaseCounts(cnts) ==
    <<At(cnts, BASE_IDX("A")), At(cnts, BASE_IDX("C")), At(cnts, BASE_IDX("G")),
      At(cnts, BASE_IDX("T"))>>
BaseContent(g) == <<g.A, g.C, g.G, g.T>>

\* C22: the four base counts of every row written are the A, C, G, T of the
\* first record of the row's read group, and while a read accumulates its
\* base counts are those of its first record, whatever the later records of
\* the read carry.
C22_BaseCountsOfFirstRecord ==
    /\ \A j \in 1..Len(out) :
          BaseCounts(out[j].counts) = BaseContent(scanned[RunStart(scanned, j)])
    /\ (pc = "loop" /\ scanned # <<>>) =>
          BaseCounts(counts) = BaseContent(scanned[RunStart(scanned, NRuns(scanned))])

\* C22 witness: a read whose second record carries another base content than
\* its first, its row written, and the row of a second read after it.
C22_Witness ==
    /\ pc = "done" /\ Len(scanned) = 3 /\ Len(out) = 2
    /\ scanned[1].read_id = scanned[2].read_id
    /\ scanned[1].A # scanned[2].A

\* The rows of a written table are in non-decreasing barcode order.
BarcodeOrdered(lines) ==
    \A p, q \in 2..Len(lines) :
        p < q => BarcodeRank(lines[p].row.barcode) <= BarcodeRank(lines[q].row.barcode)

\* C23 (as claimed): the table count_conversions has written to counts_path
\* when it returns has its rows in non-decreasing barcode order.
C23_CountsSortedByBarcode ==
    main_pc = "returned" => BarcodeOrdered(counts_file)

\* C23 (amended): with deduplicate true the table written to counts_path has
\* its rows in non-decreasing barcode order.
C23_DeduplicatedSortedByBarcode ==
    (main_pc = "returned" /\ deduplicate) =>
        /\ counts_file[1] = HeaderLine
        /\ BarcodeOrdered(counts_file)

\* C23 witness: a deduplicated table with rows of both barcodes made from a
\* combined table that was not in barcode order.
C23_Witness ==
    /\ main_pc = "returned" /\ deduplicate
    /\ ~BarcodeOrdered(combined)
    /\ \E p, q \in 2..Len(counts_file) :
          counts_file[p].row.barcode # counts_file[q].row.barcode

\* The number of conversions of a row: the total of its 12 conversion counts.
RECURSIVE ConversionTotal(_, _)
ConversionTotal(row, k) ==
    IF k = 0 THEN 0 ELSE row.counts[k] + ConversionTotal(row, k - 1)
NConversions(row) == ConversionTotal(row, NColumns - 4)

\* C24 (as claimed): of the rows that share a barcode and UMI (and gene), the
\* one kept by the deduplication has the greatest number of conversions.
C24_KeepsMostConversions ==
    dedup_pc = "returned" =>
        \A kept \in Range(df_deduplicated) :
            \A x \in KeyGroup(df_counts, kept) : NConversions(x) <= NConversions(kept)

\* The total of the counts of columns a..b of a counts list.
RECURSIVE ColumnTotal(_, _, _)
ColumnTotal(cnts, a, b) == IF a > b THEN 0 ELSE cnts[a] + ColumnTotal(cnts, a + 1, b)

\* How often value v stands in columns a..b.
TimesIn(cnts, a, b, v) == Cardinality({j \in a..b : cnts[j] = v})

\* C25: on every reverse-strand row the reassignment permutes the 12
\* conversion counts among the conversion columns and the 4 base counts among
\* the base columns, so both totals are kept; and complementing the returned
\* table once more gives every row its original counts again.
C25_ReassignmentIsInvolution ==
    cc_pc = "returned" =>
        LET again == complement_counts(cc_result, gene_infos)
            nconv == Len(CONVERSION_COLUMNS)
        IN  /\ Len(again) = Len(cc_result)
            /\ \A k \in 1..Len(cc_result) :
                  LET given == cc_counts[cc_result[k].index + 1].counts
                      once  == cc_result[k].counts
                  IN  /\ again[k].counts = given
                      /\ \A v \in Range(given) :
                            /\ TimesIn(once, 1, nconv, v) = TimesIn(given, 1, nconv, v)
                            /\ TimesIn(once, nconv + 1, NColumns, v)
                                  = TimesIn(given, nconv + 1, NColumns, v)
                      /\ ColumnTotal(once, 1, nconv) = ColumnTotal(given, 1, nconv)
                      /\ ColumnTotal(once, nconv + 1, NColumns)
                            = ColumnTotal(given, nconv + 1, NColumns)

\* C25 witness: a reverse-strand row with 16 different counts, none of them
\* left in its column.
C25_Witness ==
    /\ cc_pc = "returned"
    /\ \E k \in 1..Len(cc_result) :
          /\ gene_infos[cc_result[k].GX] = "-"
          /\ \A j \in 1..NColumns :
                /\ cc_counts[cc_result[k].index + 1].counts[j] = j
                /\ cc_result[k].counts[j] # j

\* The (conversion, contig, genome_i) triples that qualify, from the arguments
\* of detect_snps.
QualifyingTriples ==
    {x \in DOMAIN convs :
        /\ convs[x] > 0
        /\ <<x[2], x[3]>> \in DOMAIN coverage
        /\ coverage[<<x[2], x[3]>>] >= min_coverage
        /\ convs[x] * threshold[2] > threshold[1] * coverage[<<x[2], x[3]>>]}

C27_LockHeldOnlyAroundAddition ==
    /\ [](\A w \in Workers :
            /\ (lock = w) <=> (proc[w].pc = "add")
            /\ proc[w].pc = "acquire" => lock # w)
    /\ [][\A w \in Workers :
            lock = w =>
                /\ proc'[w].done = proc[w].done
                /\ proc'[w] # proc[w] =>
                      /\ lock' = None
                      /\ counter_value' = counter_value + proc[w].amount
                      /\ proc'[w].pc \in {"loop", "lines", "done"}]_vars

\* C27 witness: w1 has added a batch, released the lock and is back in its
\* loop while w2 holds the lock.
C27_Witness ==
    /\ lock = "w2"
    /\ proc["w1"].added > 0 /\ proc["w1"].pc = "loop" /\ proc["w1"].done < proc["w1"].units

\* The total the coordinator displays against: the units of all the parts.
ProgressTotal == SumOver(Workers, "units")

\* C28: the shared counter never decreases and never exceeds the total of
\* the units handed to the workers, nor the units the workers have begun.
C28_CounterMonotonicAndBounded ==
    /\ [](/\ 0 <= counter_value
          /\ counter_value <= SumOver(Workers, "done")
          /\ counter_value <= ProgressTotal)
    /\ [][counter_value' >= counter_value]_vars

\* C28 witness: the counter has grown by a batch of one worker and then by
\* one of the other, and is still short of the total.
C28_Witness ==
    /\ proc["w1"].added > 0 /\ proc["w2"].added > 0
    /\ counter_value = proc["w1"].added + proc["w2"].added
    /\ counter_value < ProgressTotal

\* The arguments and the expected arrays of TestPi.test_split_matrix, in
\* quarters.
TestMatrix ==
    [c \in SplitCells |->
        CASE c = <<"bc1", "gx1">> -> 1 [] c = <<"bc1", "gx2">> -> 2
          [] c = <<"bc2", "gx1">> -> 4 [] c = <<"bc2", "gx2">> -> 5]
TestPis ==
    [c \in {<<"bc1", "gx1">>, <<"bc2", "gx1">>} |-> IF c[1] = "bc1" THEN 2 ELSE 1]
TestMask == [c \in SplitCells |-> c[2] = "gx1"]
TestLabeled ==
    [c \in SplitCells |-> CASE c = <<"bc1", "gx1">> -> 2 [] c = <<"bc2", "gx1">> -> 4
                             [] OTHER -> 0]
TestUnlabeled ==
    [c \in SplitCells |-> CASE c = <<"bc1", "gx1">> -> 2 [] c = <<"bc2", "gx1">> -> 12
                             [] OTHER -> 0]

FlaggedForOtherTypeOnly(s, g) ==
    /\ ~s.none
    /\ \E e \in s.table : e[2] = g.contig /\ e[3] = g.genome_i
    /\ ~Flagged(s, g)

\* C30: every record of quality above the threshold whose position is not
\* flagged for the record's own conversion type is counted, those at a
\* position flagged for another type included: a row's count of a type is at
\* least the number of such records of its read group.
C30_OtherTypeFlagDoesNotMask ==
    \A j \in 1..Len(out) : \A pair \in ConversionPairs :
        RowCount(out[j], pair) >=
            Cardinality({k \in Qualifying(scanned, j, pair, quality) :
                            ~Flagged(snps, scanned[k])})

\* C30 witness: a G>T record of quality above the threshold at chr1:5, which
\* the table flags for A>C only, counted in the row of its read.
C30_Witness ==
    /\ pc = "done" /\ Len(scanned) = 1 /\ Len(out) = 1
    /\ <<scanned[1].original, scanned[1].converted>> = <<"G", "T">>
    /\ scanned[1].quality > quality
    /\ FlaggedForOtherTypeOnly(snps, scanned[1])
    /\ RowCount(out[1], <<"G", "T">>) = 1

\* The fields of a row and of a record that say which read it is of.
RowIdentity(row) == <<row.barcode, row.umi, row.GX, row.velocity, row.transcriptome>>

\* C31: row j carries the barcode, umi, gene, velocity and transcriptome of
\* every record of read group j and of no other, and for every conversion
\* type a count that is at most the number of records of that type in read
\* group j with quality above the threshold; the record that triggers a
\* flush adds nothing to the row flushed; at the end of input the last read
\* group has its row, with its own fields.
C31_FlushedRowIsOfItsOwnRead ==
    /\ \A j \in 1..Len(out) :
          /\ \A k \in Run(scanned, j) : RowIdentity(out[j]) = RowIdentity(scanned[k])
          /\ \A pair \in ConversionPairs :
                RowCount(out[j], pair) <= Cardinality(Qualifying(scanned, j, pair, quality))
    /\ pc = "done" =>
          /\ Len(out) = NRuns(scanned)
          /\ scanned # <<>> => RowIdentity(out[Len(out)]) = RowIdentity(scanned[Len(scanned)])

\* C31 witness: a read with an A>C of quality above the threshold, flushed
\* by a G>T record, of quality above the threshold, of a read with other
\* identity fields; the first row has no G>T, the second, written at the end
\* of input, no A>C.
C31_Witness ==
    /\ pc = "done" /\ Len(scanned) = 2 /\ Len(out) = 2
    /\ scanned[1].read_id = "r1" /\ scanned[2].read_id = "r2"
    /\ <<scanned[1].original, scanned[1].converted>> = <<"A", "C">>
    /\ <<scanned[2].original, scanned[2].converted>> = <<"G", "T">>
    /\ scanned[1].quality > quality /\ scanned[2].quality > quality
    /\ RowCount(out[1], <<"G", "T">>) = 0 /\ RowCount(out[1], <<"A", "C">>) = 1
    /\ RowCount(out[2], <<"A", "C">>) = 0 /\ RowCount(out[2], <<"G", "T">>) = 1

SequentialScan ==
    count_conversions_part(InputFile, NoSnps, DefaultQuality)
        \o count_no_conversions_part(0, Len(no_idx))

\* C33: whatever n_threads is and however the parts were cut, the combined
\* table holds, after its header, every row as often as one sequential scan
\* of the two files writes it, and no other row.
C33_CombinedIsSequentialScan ==
    Combined =>
        /\ Len(combined) = 1 + Len(SequentialScan)
        /\ \A r \in Range(SequentialScan) \cup Range(read_counts(combined)) :
              Occurrences(combined, RowLine(r)) = Occurrences(SequentialScan, r)

\* C33 witness: three read groups, one of two records, and three
\* no-conversion records, scanned by two workers each and combined.
C33_Witness ==
    /\ Combined /\ n_threads = 2 /\ Len(parts) = 2 /\ Len(no_parts) = 2
    /\ Len(idx) = 3 /\ Len(no_idx) = 3
    /\ \E k \in 1..Len(idx) : idx[k].n_lines = 2

\* C34 (as claimed): the counter is never greater than the number of units
\* the workers have completed: records read, parsed and written by the two
\* counting functions, index entries whose lines extract_conversions_part
\* has read.
C34_CounterNeverAheadOfWork ==
    counter_value <= SumOver(Workers, "completed")

-----------------------------------------------------------------------------
\* C35 (as claimed): for every value of re and every stage of count() the
\* re-run decision is defined, that is count() never ends in the ValueError of
\* redo; a stage whose outputs all exist is run again exactly when re names the
\* stage's key or a choice before it; and once re has made a stage run again,
\* every stage decided after it runs as well.

NamesStageOrEarlier(s) ==
    \E k \in 1..Len(RE_CHOICES) :
        /\ re = RE_CHOICES[k]
        /\ \A j \in 1..(k - 1) : RE_CHOICES[j] # StageKeys[s]

C35_RerunDecisionDefinedAndForwardClosed ==
    /\ count_pc # "raised"
    /\ \A s \in 1..Len(decision) :
           /\ decision[s] = "redo" => NamesStageOrEarlier(s)
           /\ decision[s] = "skip" => ~NamesStageOrEarlier(s)
           /\ decision[s] = "redo" =>
                  \A t \in (s + 1)..Len(decision) : decision[t] # "skip"
============================================================================
